---- MODULE Spec2Model ----
(***************************************************************************)
(* Model of the completion-metadata pipeline of PySwiftIDE/scripts:        *)
(*   harvest_python_docs.py, generate_swift_completions.py and             *)
(*   apply_harvested_docs.py.                                              *)
(*                                                                         *)
(* Text is a sequence of tokens; the text a sequence stands for is the     *)
(* concatenation of its tokens.  Every token is a non-empty string and     *)
(* holds the characters it stands for, a line feed is the token NL.  The   *)
(* vocabulary is chosen so that every marker and every literal of the      *)
(* struct regex is a whole number of tokens and can occur in a text of     *)
(* the vocabulary only at token boundaries, so str.find, str.replace and   *)
(* re.search on the text are find, replace and search on the tokens.       *)
(* Indices are 0-based, as in the source.                                  *)
(***************************************************************************)
EXTENDS Integers, Sequences, FiniteSets, TLC

\* ------------------------------------------------------------------ bounds
MaxSegs == 3
MaxRuns == 2
MaxLen == 4
MaxMarker == 2
MaxClock == 5
MaxGenRuns == 2
MaxDoc == 3
MaxParams == 2
MaxNames == 3
MaxMath == 3
MaxItems == 2

\* ------------------------------------------------------------------ tokens
NL      == "\n"
TEXT    == "    // hand-written"
DOCPFX  == "    /// "
HAND    == "Hand-written doc"
TM      == " type methods"
BSTART  == "    private static let builtinFunctions: [CompletionItem] = ["
MSTART  == "    private static let mathModuleCompletions: [CompletionItem] = ["
CLOSE4  == "    ]"
BTAIL   == "\n    \n    // MARK: - Built-in Type Method Definitions"
MTAIL   == "\n    \n    // MARK: - Sequence Operations"
SBODY   == "        static let methods: [CompletionItem] = ["
SCLOSE  == "        ]"
SBRACE  == "    }"

\* ---------------------------------------------------------- str operations
Min(a, b) == IF a < b THEN a ELSE b

\* s[a:b]
Slice(s, a, b) == SubSeq(s, a + 1, b)

\* s[:n]
Prefix(s, n) == Slice(s, 0, Min(n, Len(s)))

\* sub occurs in s at index i
Occurs(s, sub, i) ==
    /\ i >= 0
    /\ i + Len(sub) <= Len(s)
    /\ Slice(s, i, i + Len(sub)) = sub

\* s.find(sub, i): the lowest index >= i where sub occurs, or -1
RECURSIVE Find(_, _, _)
Find(s, sub, i) ==
    IF i + Len(sub) > Len(s) THEN -1
    ELSE IF Occurs(s, sub, i) THEN i
    ELSE Find(s, sub, i + 1)

\* s.replace(old, new) for a non-empty old: every non-overlapping occurrence,
\* left to right
RECURSIVE Replace(_, _, _)
Replace(s, old, new) ==
    IF Len(s) < Len(old) THEN s
    ELSE IF Occurs(s, old, 0)
         THEN new \o Replace(Slice(s, Len(old), Len(s)), old, new)
         ELSE <<s[1]>> \o Replace(Tail(s), old, new)

\* sep.join(parts)
RECURSIVE Join(_, _)
Join(parts, sep) ==
    IF parts = <<>> THEN <<>>
    ELSE IF Len(parts) = 1 THEN parts[1]
    ELSE parts[1] \o sep \o Join(Tail(parts), sep)

\* the string a sequence of one-character strings stands for
RECURSIVE Str(_)
Str(cs) == IF cs = <<>> THEN "" ELSE cs[1] \o Str(Tail(cs))

\* item.get(key, default)
Get(item, key, default) == IF key \in DOMAIN item THEN item[key] ELSE default

\* ------------------------------------------------------------ re (DOTALL)
\* A pattern is a sequence of pieces: a literal, ".+" (greedy) or ".+?" (lazy).
Lit(l)  == [kind |-> "lit", lit |-> l]
Greedy  == [kind |-> "greedy", lit |-> <<>>]
Lazy    == [kind |-> "lazy", lit |-> <<>>]

\* The end of the match of pieces p.. at index i that the backtracking matcher
\* finds first, or -1: a greedy ".+" tries the longest run first, a lazy one
\* the shortest; each takes at least one character.
RECURSIVE MatchAt(_, _, _, _), TryGreedy(_, _, _, _, _), TryLazy(_, _, _, _, _)
MatchAt(s, i, pieces, p) ==
    IF p > Len(pieces) THEN i
    ELSE IF pieces[p].kind = "lit"
         THEN IF Occurs(s, pieces[p].lit, i)
              THEN MatchAt(s, i + Len(pieces[p].lit), pieces, p + 1)
              ELSE -1
    ELSE IF pieces[p].kind = "greedy"
         THEN TryGreedy(s, i, Len(s), pieces, p)
    ELSE TryLazy(s, i, i + 1, pieces, p)

TryGreedy(s, i, j, pieces, p) ==
    IF j <= i THEN -1
    ELSE LET r == MatchAt(s, j, pieces, p + 1)
         IN  IF r # -1 THEN r ELSE TryGreedy(s, i, j - 1, pieces, p)

TryLazy(s, i, j, pieces, p) ==
    IF j > Len(s) THEN -1
    ELSE LET r == MatchAt(s, j, pieces, p + 1)
         IN  IF r # -1 THEN r ELSE TryLazy(s, i, j + 1, pieces, p)

\* regex.search(s): <<start, end>> of the leftmost match, or <<-1, -1>>
RECURSIVE SearchFrom(_, _, _)
SearchFrom(s, pieces, i) ==
    IF i > Len(s) THEN <<-1, -1>>
    ELSE LET r == MatchAt(s, i, pieces, 1)
         IN  IF r # -1 THEN <<i, r>> ELSE SearchFrom(s, pieces, i + 1)

Search(s, pieces) == SearchFrom(s, pieces, 0)

\* --------------------------------------------------- the interchange record
\* Items as harvest_python_docs.py writes them.  A parameter is a sequence of
\* characters, a name, a value and a documentation are strings.
ABS ==
    [name |-> "abs", params |-> << <<"x">> >>,
     doc |-> "Return the absolute value of the argument."]

PRINT ==
    [name |-> "print",
     params |-> << <<"*", "a", "r", "g", "s">>,
                   <<"s", "e", "p", "=", "'", " ", "'">>,
                   <<"e", "n", "d", "=", "'", "\n", "'">> >>,
     doc |-> "Prints the values to a stream, or to sys.stdout by default."]

UPPER ==
    [name |-> "upper", params |-> <<>>,
     doc |-> "Return a copy of the string converted to uppercase."]

APPEND ==
    [name |-> "append", params |-> << <<"o", "b", "j", "e", "c", "t">> >>,
     doc |-> "Append object to the end of the list."]

PI ==
    [type |-> "constant", name |-> "math.pi", value |-> "3.141592653589793",
     doc |-> "The mathematical constant pi."]

SQRT ==
    [type |-> "function", name |-> "math.sqrt", params |-> << <<"x">> >>,
     doc |-> "Return the square root of x."]

\* The records the runs are given: python_docs.json as json.load returns it.
Records ==
    { [builtin_functions |-> <<ABS, PRINT>>,
       type_methods |-> [t \in {"str", "list"} |->
                            IF t = "str" THEN <<UPPER>> ELSE <<APPEND>>],
       math_module |-> <<SQRT, PI>>],
      [builtin_functions |-> <<ABS>>,
       type_methods |-> [t \in {"list", "frozenset"} |-> <<>>],
       math_module |-> <<PI>>],
      [builtin_functions |-> <<>>,
       type_methods |-> <<>>,
       math_module |-> <<>>] }

\* the container types harvest_python_docs.py records (lines 213-222)
AllTypes ==
    {"str", "list", "dict", "set", "frozenset", "bytes", "bytearray", "tuple"}

\* The records the generator is given: those, and one with every type
GenRecords ==
    Records \cup
    { [builtin_functions |-> <<PRINT, ABS>>,
       type_methods |-> [t \in AllTypes |-> <<UPPER>>],
       math_module |-> <<PI, SQRT, PI>>] }

\* ------------------------------------------------- apply_harvested_docs.py
\* type_name.capitalize() on the type names of the record
capitalize(type_name) ==
    CASE type_name = "str"       -> "Str"
      [] type_name = "list"      -> "List"
      [] type_name = "dict"      -> "Dict"
      [] type_name = "set"       -> "Set"
      [] type_name = "frozenset" -> "Frozenset"
      [] type_name = "bytes"     -> "Bytes"
      [] type_name = "bytearray" -> "Bytearray"
      [] type_name = "tuple"     -> "Tuple"

\* type_map.get(type_name, ...): <<struct_name, type_desc>>
type_map(type_name) ==
    CASE type_name = "str"       -> <<"StringMethods", "string">>
      [] type_name = "list"      -> <<"ListMethods", "list">>
      [] type_name = "dict"      -> <<"DictMethods", "dict">>
      [] type_name = "set"       -> <<"SetMethods", "set">>
      [] type_name = "frozenset" -> <<"FrozensetMethods", "frozenset">>
      [] type_name = "bytes"     -> <<"BytesMethods", "bytes">>
      [] type_name = "bytearray" -> <<"BytearrayMethods", "bytearray">>
      [] type_name = "tuple"     -> <<"TupleMethods", "tuple">>
      [] OTHER -> <<capitalize(type_name) \o "Methods", type_name>>

\* ', '.join(f'"{p}"' for p in params), as characters
params_str(params) ==
    Join([i \in 1..Len(params) |-> <<"\"">> \o params[i] \o <<"\"">>],
         <<",", " ">>)

\* .replace("end='", "end='\\\\n").replace("'\"", "'\\n\"") of line 47
print_fix(ps) ==
    Replace(Replace(ps, <<"e", "n", "d", "=", "'">>,
                        <<"e", "n", "d", "=", "'", "\\", "\\", "n">>),
            <<"'", "\"">>, <<"'", "\\", "n", "\"">>)

\* the f-string of lines 48, 79 and 113, with the "," its caller appends
function_line(indent, name, ps, doc) ==
    indent \o ".function(name: \"" \o name \o "\", parameters: [" \o Str(ps)
           \o "], documentation: \"" \o doc \o "\")" \o ","

\* the f-string of line 102, with the "," its caller appends
constant_line(indent, name, value, doc) ==
    indent \o ".constant(name: \"" \o name \o "\", value: \"" \o value
           \o "\", documentation: \"" \o doc \o "\")" \o ","

\* a variant that applies the replacements of line 47 to every item
builtin_params_fixAll(item) == print_fix(params_str(Get(item, "params", <<>>)))

\* lines 44-47: params_str of one item of generate_builtin_functions
builtin_params(item) ==
    IF item.name = "print"
    THEN print_fix(params_str(Get(item, "params", <<>>)))
    ELSE params_str(Get(item, "params", <<>>))

\* one line of generate_builtin_functions
builtin_line(item) ==
    function_line("        ", item.name, builtin_params(item), item.doc)

apply_generate_builtin_functions(data) ==
    Join(<< <<BSTART>> >>
         \o [i \in 1..Len(data) |-> <<builtin_line(data[i])>>]
         \o << <<CLOSE4>> >>, <<NL>>)

\* the first two lines of a struct block
struct_doc(type_name) ==
    <<DOCPFX, capitalize(type_name), TM,
      " - for use when type inference determines an object is a "
          \o type_map(type_name)[2]>>

struct_head(struct_name) == "    struct " \o struct_name \o " {"

generate_type_methods_struct(type_name, methods) ==
    Join(<< struct_doc(type_name),
            <<struct_head(type_map(type_name)[1])>>,
            <<SBODY>> >>
         \o [i \in 1..Len(methods) |->
                <<function_line("            ", methods[i].name,
                                params_str(Get(methods[i], "params", <<>>)),
                                methods[i].doc)>>]
         \o << <<SCLOSE>>, <<SBRACE>> >>, <<NL>>)

IsConstant(item) == Get(item, "type", "") = "constant"
IsFunction(item) == Get(item, "type", "") = "function"

apply_generate_math_module(data) ==
    LET constants == SelectSeq(data, IsConstant)
        functions == SelectSeq(data, IsFunction)
    IN  Join(<< <<MSTART>> >>
             \o (IF constants # <<>>
                 THEN << <<"        // Math module constants">> >> ELSE <<>>)
             \o [i \in 1..Len(constants) |->
                    <<constant_line("        ", constants[i].name,
                                    Get(constants[i], "value", ""),
                                    constants[i].doc)>>]
             \o (IF functions # <<>> /\ constants # <<>>
                 THEN << <<>>, <<"        // Math module functions">> >>
                 ELSE <<>>)
             \o [i \in 1..Len(functions) |->
                    <<function_line("        ", functions[i].name,
                                    params_str(Get(functions[i], "params", <<>>)),
                                    functions[i].doc)>>]
             \o << <<CLOSE4>> >>, <<NL>>)

\* The two regions main hands to replace_section (lines 137-142, 176-181)
RSRegions == {"builtin", "math"}

start_marker(r) == IF r = "builtin" THEN <<BSTART>> ELSE <<MSTART>>

end_marker(r) == IF r = "builtin" THEN <<CLOSE4, BTAIL>> ELSE <<CLOSE4, MTAIL>>

new_content(r, d) ==
    IF r = "builtin"
    THEN apply_generate_builtin_functions(d.builtin_functions) \o <<BTAIL>>
    ELSE apply_generate_math_module(d.math_module) \o <<MTAIL>>

\* marker[:50], the text a diagnostic of replace_section shows
marker50(m) ==
    CASE m = <<BSTART>> -> "    private static let builtinFunctions: [Completi"
      [] m = <<MSTART>> -> "    private static let mathModuleCompletions: [Com"
      [] m = <<CLOSE4, BTAIL>> ->
             "    ]\n    \n    // MARK: - Built-in Type Method Def"
      [] m = <<CLOSE4, MTAIL>> ->
             "    ]\n    \n    // MARK: - Sequence Operations"

\* line 145
type_order == <<"str", "list", "dict", "set", "bytes", "bytearray", "tuple">>

\* lines 156-158
struct_pattern(type_name) ==
    IF type_name = "bytearray" THEN "struct BytearrayMethods"
    ELSE "struct (" \o (IF type_name = "str" THEN "String"
                 ELSE IF type_name \in {"list", "dict", "set", "tuple"}
                      THEN capitalize(type_name)
                 ELSE IF type_name = "bytes" THEN capitalize(type_name) \o "s"
                 ELSE capitalize(type_name)) \o ")Methods"

\* the text struct_pattern.split()[-1] matches: a group "(X)" matches X
pattern_name(type_name) ==
    IF type_name = "bytearray" THEN "BytearrayMethods"
    ELSE (IF type_name = "str" THEN "String"
          ELSE IF type_name \in {"list", "dict", "set", "tuple"}
               THEN capitalize(type_name)
          ELSE IF type_name = "bytes" THEN capitalize(type_name) \o "s"
          ELSE capitalize(type_name)) \o "Methods"

\* lines 161-164:
\*   (    /// .+ type methods.+\n    struct <pattern> \{.+?\n        \]\n    \})
struct_regex(type_name) ==
    << Lit(<<DOCPFX>>), Greedy, Lit(<<TM>>), Greedy,
       Lit(<<NL, struct_head(pattern_name(type_name))>>), Lazy,
       Lit(<<NL, SCLOSE, NL, SBRACE>>) >>

\* replace_section, lines 23, 29 and 35
StartIdx(c, sm) == Find(c, sm, 0)

\* a variant that searches the end marker from the start of the start marker
EndIdx_fromStart(c, sm, em, s) == Find(c, em, s)

\* a variant that takes the end of the text for a missing end marker
EndIdx_toEOF(c, sm, em, s) ==
    IF Find(c, em, s + Len(sm)) = -1 THEN Len(c) ELSE Find(c, em, s + Len(sm))

EndIdx(c, sm, em, s) == Find(c, em, s + Len(sm))

Spliced(c, s, e, new) == Slice(c, 0, s) \o new \o Slice(c, e, Len(c))

\* a variant that goes on after a failed search
AfterSearch_goesOn(idx, found) == found

\* lines 24 and 30: where a search leaves the region
AfterSearch(idx, found) == IF idx = -1 THEN "Skipped" ELSE found

replace_section(c, sm, em, new) ==
    LET s == StartIdx(c, sm)
    IN  IF AfterSearch(s, "SearchingEnd") = "Skipped" THEN c
        ELSE LET e == EndIdx(c, sm, em, s)
             IN  IF AfterSearch(e, "Replacing") = "Skipped" THEN c
                 ELSE Spliced(c, s, e, new)

\* a variant that writes whatever the comparison says
ShouldWrite_always(c, original) == TRUE

\* line 184
ShouldWrite(c, original) == c # original

\* ------------------------------------------------------- the target files
OLDENTRY ==
    "        .function(name: \"old\", parameters: [], documentation: \"Old.\"),"

SegKinds ==
    {"txt", "hdoc", "bs", "be", "breg", "ms", "mreg", "st_str", "st_list",
     "st_frozenset"}

Seg(k) ==
    CASE k = "txt"     -> <<TEXT, NL>>
      [] k = "hdoc"    -> <<DOCPFX, HAND, NL>>
      [] k = "bs"      -> <<BSTART, NL>>
      [] k = "be"      -> <<CLOSE4, BTAIL, NL>>
      [] k = "breg"    -> <<BSTART, NL, OLDENTRY, NL, CLOSE4, BTAIL, NL>>
      [] k = "ms"      -> <<MSTART, NL>>
      [] k = "mreg"    -> <<MSTART, NL, OLDENTRY, NL, CLOSE4, MTAIL, NL>>
      [] k = "st_str"  -> generate_type_methods_struct("str", <<>>) \o <<NL>>
      [] k = "st_list" -> generate_type_methods_struct("list", <<>>) \o <<NL>>
      [] k = "st_frozenset" ->
             generate_type_methods_struct("frozenset", <<>>) \o <<NL>>

RECURSIVE Flatten(_)
Flatten(ss) == IF ss = <<>> THEN <<>> ELSE ss[1] \o Flatten(Tail(ss))

\* MonacoAnalyzer.swift: up to MaxSegs segments in any order
Files ==
    UNION { { Flatten([i \in 1..n |-> Seg(ks[i])]) : ks \in [1..n -> SegKinds] }
            : n \in 0..MaxSegs }

\* ------------------------------------------------------------------ state
VARIABLES
    data,              \* python_docs.json, loaded
    disk,              \* MonacoAnalyzer.swift on disk
    content,           \* main's content
    original_content,  \* main's original_content
    pc,                \* where main is
    phase,             \* per replace_section region: where the call is
    tphase,            \* per type of type_order: what its iteration did
    start_idx,         \* replace_section's start_idx
    end_idx,           \* replace_section's end_idx
    ti,                \* the next index of type_order, from 1
    log,               \* the diagnostics printed in this run
    run,               \* the number of this run of main
    earlier,           \* phase and tphase at the end of the run before
    opened,            \* whether this run opened the target file for writing
    prev,              \* content before the last replacement
    last,              \* the region or type replaced last
    rs_pc,             \* a single call of replace_section: where it is
    rs_args,           \* its arguments
    rs_ret,            \* what it returned
    gen_pc,            \* generate_swift_completions.py: where main is
    gen_data,          \* the record it loaded
    gen_now,           \* what datetime.now() returned to this run
    gen_file,          \* generated_completions.swift on disk
    gen_prev,          \* generated_completions.swift of the run before
    gen_runs,          \* the number of runs of the generator so far
    cd_pc,             \* a single call of clean_docstring: where it is
    cd_doc,            \* its argument, as characters
    cd_ret,            \* what it returned
    sg_pc,             \* a single call of get_function_signature
    sg_func,           \* its argument
    sg_ret,            \* the params it returned
    hv_pc,             \* harvest_python_docs.py: where main is
    hv_runtime,        \* what builtins holds for each allow-listed name
    hv_i,              \* the next index of builtin_names, from 1
    hv_functions,      \* the list harvest_builtin_functions builds
    hv_log,            \* what this run printed
    em_pc,             \* a single call of format_swift_array_item
    em_item,           \* its item, every string as characters
    em_out,            \* the entry it returned, as characters
    mm_pc,             \* a single call of each generate_math_module
    mm_data,           \* the module list they are given
    mm_gen,            \* what the generator's returned
    mm_apply,          \* what apply's returned
    ns_pc,             \* harvest_type_methods and harvest_math_module: where
    ns_dir,            \* the attributes of the object, in dir() order
    ns_methods,        \* what harvest_type_methods returned for it
    ns_items,          \* what harvest_math_module returned for it
    bk_pc,             \* the blocks of both emitters for one record: where
    bk_data,           \* the record
    bk_apply,          \* the blocks apply_harvested_docs.py generates
    bk_gen,            \* the blocks generate_swift_completions.py generates
    bk_found           \* per type, what apply's struct search finds in its block

applyVars ==
    <<data, disk, content, original_content, pc, phase, tphase, start_idx,
      end_idx, ti, log, run, earlier, opened, prev, last>>

rsVars == <<rs_pc, rs_args, rs_ret>>

genVars == <<gen_pc, gen_data, gen_now, gen_file, gen_prev, gen_runs>>

docVars == <<cd_pc, cd_doc, cd_ret>>

sigVars == <<sg_pc, sg_func, sg_ret>>

harvestVars == <<hv_pc, hv_runtime, hv_i, hv_functions, hv_log>>

emitVars == <<em_pc, em_item, em_out>>

mathVars == <<mm_pc, mm_data, mm_gen, mm_apply>>

nsVars == <<ns_pc, ns_dir, ns_methods, ns_items>>

bkVars == <<bk_pc, bk_data, bk_apply, bk_gen, bk_found>>

pipeVars ==
    <<docVars, sigVars, harvestVars, emitVars, mathVars, nsVars, bkVars>>

vars == <<applyVars, rsVars, genVars, pipeVars>>

Diag(missing, text) == [missing |-> missing, text |-> text]

\* the scripts that are not run
ApplyIdle ==
    /\ data = <<>>
    /\ disk = <<>>
    /\ content = <<>>
    /\ original_content = <<>>
    /\ pc = "idle"
    /\ phase = [r \in RSRegions |-> "Pending"]
    /\ tphase = <<>>
    /\ start_idx = -1
    /\ end_idx = -1
    /\ ti = 1
    /\ log = <<>>
    /\ run = 1
    /\ earlier = [phase |-> [r \in RSRegions |-> "Pending"], tphase |-> <<>>]
    /\ opened = FALSE
    /\ prev = <<>>
    /\ last = "none"

RSIdle ==
    /\ rs_pc = "idle"
    /\ rs_args = <<>>
    /\ rs_ret = <<>>

GenIdle ==
    /\ gen_pc = "idle"
    /\ gen_data = <<>>
    /\ gen_now = 0
    /\ gen_file = <<>>
    /\ gen_prev = <<>>
    /\ gen_runs = 0

DocIdle ==
    /\ cd_pc = "idle"
    /\ cd_doc = <<>>
    /\ cd_ret = <<>>

SigIdle ==
    /\ sg_pc = "idle"
    /\ sg_func = <<>>
    /\ sg_ret = <<>>

HarvestIdle ==
    /\ hv_pc = "idle"
    /\ hv_runtime = <<>>
    /\ hv_i = 1
    /\ hv_functions = <<>>
    /\ hv_log = <<>>

EmitIdle ==
    /\ em_pc = "idle"
    /\ em_item = <<>>
    /\ em_out = <<>>

MathIdle ==
    /\ mm_pc = "idle"
    /\ mm_data = <<>>
    /\ mm_gen = <<>>
    /\ mm_apply = <<>>

NsIdle ==
    /\ ns_pc = "idle"
    /\ ns_dir = <<>>
    /\ ns_methods = <<>>
    /\ ns_items = <<>>

BkIdle ==
    /\ bk_pc = "idle"
    /\ bk_data = <<>>
    /\ bk_apply = <<>>
    /\ bk_gen = <<>>
    /\ bk_found = <<>>

LaterIdle == NsIdle /\ BkIdle

PipeIdle ==
    DocIdle /\ SigIdle /\ HarvestIdle /\ EmitIdle /\ MathIdle /\ LaterIdle

ApplyInit ==
    /\ data \in Records
    /\ disk \in Files
    /\ content = <<>>
    /\ original_content = <<>>
    /\ pc = "read"
    /\ phase = [r \in RSRegions |-> "Pending"]
    /\ tphase = [i \in 1..Len(type_order) |-> "Pending"]
    /\ start_idx = -1
    /\ end_idx = -1
    /\ ti = 1
    /\ log = <<>>
    /\ run = 1
    /\ earlier = [phase |-> [r \in RSRegions |-> "Pending"], tphase |-> <<>>]
    /\ opened = FALSE
    /\ prev = <<>>
    /\ last = "none"

\* lines 124-132, and the call of replace_section of line 137
Read ==
    /\ pc = "read"
    /\ content' = disk
    /\ original_content' = disk
    /\ pc' = "builtin"
    /\ phase' = [r \in RSRegions |->
                    IF r = "builtin" THEN "SearchingStart" ELSE "Pending"]
    /\ tphase' = [i \in 1..Len(type_order) |-> "Pending"]
    /\ start_idx' = -1
    /\ end_idx' = -1
    /\ ti' = 1
    /\ log' = <<>>
    /\ opened' = FALSE
    /\ prev' = disk
    /\ last' = "none"
    /\ UNCHANGED <<data, disk, run, earlier, rsVars, genVars, pipeVars>>

\* where main goes when replace_section returns
AfterRegion(r) == IF r = "builtin" THEN "types" ELSE "writeback"

\* lines 23-26
SearchStart(r) ==
    /\ pc = r
    /\ phase[r] = "SearchingStart"
    /\ LET idx == StartIdx(content, start_marker(r))
           to == AfterSearch(idx, "SearchingEnd")
       IN  /\ start_idx' = idx
           /\ phase' = [phase EXCEPT ![r] = to]
           /\ IF to = "Skipped"
              THEN /\ log' = Append(log, Diag("start", marker50(start_marker(r))))
                   /\ pc' = AfterRegion(r)
              ELSE UNCHANGED <<log, pc>>
    /\ UNCHANGED <<data, disk, content, original_content, tphase, end_idx, ti,
                   run, earlier, opened, prev, last, rsVars, genVars, pipeVars>>

\* lines 29-32
SearchEnd(r) ==
    /\ pc = r
    /\ phase[r] = "SearchingEnd"
    /\ LET idx == EndIdx(content, start_marker(r), end_marker(r), start_idx)
           to == AfterSearch(idx, "Replacing")
       IN  /\ end_idx' = idx
           /\ phase' = [phase EXCEPT ![r] = to]
           /\ IF to = "Skipped"
              THEN /\ log' = Append(log, Diag("end", marker50(end_marker(r))))
                   /\ pc' = AfterRegion(r)
              ELSE UNCHANGED <<log, pc>>
    /\ UNCHANGED <<data, disk, content, original_content, tphase, start_idx,
                   ti, run, earlier, opened, prev, last, rsVars, genVars, pipeVars>>

\* line 35
ReplaceStep(r) ==
    /\ pc = r
    /\ phase[r] = "Replacing"
    /\ content' = Spliced(content, start_idx, end_idx, new_content(r, data))
    /\ phase' = [phase EXCEPT ![r] = "Done"]
    /\ pc' = AfterRegion(r)
    /\ prev' = content
    /\ last' = r
    /\ UNCHANGED <<data, disk, original_content, tphase, start_idx, end_idx,
                   ti, log, run, earlier, opened, rsVars, genVars, pipeVars>>

\* the indices of type_order, from ti, of the types the record holds
\* (lines 147-149: the others are passed over)
Remaining ==
    {i \in ti..Len(type_order) : type_order[i] \in DOMAIN data.type_methods}

\* content.replace(match.group(1), new_struct), lines 166-168
StructReplaced(c, m, new_struct) == Replace(c, Slice(c, m[1], m[2]), new_struct)

\* lines 147-171, one iteration for a type of the record
TypeStep ==
    /\ pc = "types"
    /\ Remaining # {}
    /\ LET i == CHOOSE j \in Remaining : \A k \in Remaining : j <= k
           type_name == type_order[i]
           new_struct ==
               generate_type_methods_struct(type_name,
                                            data.type_methods[type_name])
           m == Search(content, struct_regex(type_name))
       IN  /\ ti' = i + 1
           /\ IF m[1] # -1
              THEN /\ content' = StructReplaced(content, m, new_struct)
                   /\ tphase' = [tphase EXCEPT ![i] = "Done"]
                   /\ prev' = content
                   /\ last' = type_name
                   /\ UNCHANGED log
              ELSE /\ tphase' = [tphase EXCEPT ![i] = "Skipped"]
                   /\ log' = Append(log, Diag("struct", struct_pattern(type_name)))
                   /\ UNCHANGED <<content, prev, last>>
    /\ UNCHANGED <<data, disk, original_content, pc, phase, start_idx, end_idx,
                   run, earlier, opened, rsVars, genVars, pipeVars>>

\* the end of the loop of line 147, and the call of replace_section of line 176
TypesDone ==
    /\ pc = "types"
    /\ Remaining = {}
    /\ pc' = "math"
    /\ phase' = [phase EXCEPT !["math"] = "SearchingStart"]
    /\ UNCHANGED <<data, disk, content, original_content, tphase, start_idx,
                   end_idx, ti, log, run, earlier, opened, prev, last, rsVars, genVars,
                   pipeVars>>

\* lines 184-185 and 17: open(file_path, 'w') leaves the file empty
WriteBack ==
    /\ pc = "writeback"
    /\ ShouldWrite(content, original_content)
    /\ disk' = <<>>
    /\ opened' = TRUE
    /\ pc' = "writing"
    /\ UNCHANGED <<data, content, original_content, phase, tphase, start_idx,
                   end_idx, ti, log, run, earlier, prev, last, rsVars, genVars,
                   pipeVars>>

\* lines 190-191
NoWrite ==
    /\ pc = "writeback"
    /\ ~ShouldWrite(content, original_content)
    /\ pc' = "done"
    /\ UNCHANGED <<data, disk, content, original_content, phase, tphase,
                   start_idx, end_idx, ti, log, run, earlier, opened, prev, last,
                   rsVars, genVars, pipeVars>>

\* line 18 and the close of the file
WriteData ==
    /\ pc = "writing"
    /\ disk' = content
    /\ pc' = "done"
    /\ UNCHANGED <<data, content, original_content, phase, tphase, start_idx,
                   end_idx, ti, log, run, earlier, opened, prev, last, rsVars, genVars,
                   pipeVars>>

\* line 18 ends in an I/O error: some beginning of the text was written
WriteFail ==
    /\ pc = "writing"
    /\ \E n \in 0..(Len(content) - 1) : disk' = Prefix(content, n)
    /\ pc' = "failed"
    /\ UNCHANGED <<data, content, original_content, phase, tphase, start_idx,
                   end_idx, ti, log, run, earlier, opened, prev, last, rsVars, genVars,
                   pipeVars>>

\* the script is run again, on the same record
Rerun ==
    /\ pc = "done"
    /\ run < MaxRuns
    /\ run' = run + 1
    /\ earlier' = [phase |-> phase, tphase |-> tphase]
    /\ pc' = "read"
    /\ UNCHANGED <<data, disk, content, original_content, phase, tphase,
                   start_idx, end_idx, ti, log, opened, prev, last, rsVars,
                   genVars, pipeVars>>

Init == ApplyInit /\ RSIdle /\ GenIdle /\ PipeIdle

Next ==
    \/ Read
    \/ \E r \in RSRegions : SearchStart(r)
    \/ \E r \in RSRegions : SearchEnd(r)
    \/ \E r \in RSRegions : ReplaceStep(r)
    \/ TypeStep
    \/ TypesDone
    \/ WriteBack
    \/ NoWrite
    \/ WriteData
    \/ WriteFail
    \/ Rerun

Spec == Init /\ [][Next]_vars

\* ------------------------------------------ a single call of replace_section
\* texts and markers over two characters
SeqsUpTo(S, n) == UNION {[1..k -> S] : k \in 0..n}

RSTexts == SeqsUpTo({"a", "b"}, MaxLen)

RSMarkers == SeqsUpTo({"a", "b"}, MaxMarker) \ {<<>>}

RSInit ==
    /\ rs_pc = "called"
    /\ rs_args \in [content : RSTexts, start_marker : RSMarkers,
                    end_marker : RSMarkers, new_content : {<<"n">>}]
    /\ rs_ret = <<>>

\* lines 20-35
RSReturn ==
    /\ rs_pc = "called"
    /\ rs_ret' = replace_section(rs_args.content, rs_args.start_marker,
                                 rs_args.end_marker, rs_args.new_content)
    /\ rs_pc' = "returned"
    /\ UNCHANGED <<rs_args, applyVars, genVars, pipeVars>>

InitRS == ApplyIdle /\ RSInit /\ GenIdle /\ PipeIdle

SpecRS == InitRS /\ [][RSReturn]_vars

\* ------------------------------------------- generate_swift_completions.py
\* lines 10-22
format_swift_array_item(item, is_constant) ==
    IF is_constant
    THEN ".constant(name: \"" \o item.name \o "\", value: \""
             \o Get(item, "value", "") \o "\", documentation: \""
             \o item.doc \o "\")"
    ELSE ".function(name: \"" \o item.name \o "\", parameters: ["
             \o Str(params_str(Get(item, "params", <<>>)))
             \o "], documentation: \"" \o item.doc \o "\")"

\* lines 24-33
gen_generate_builtin_functions(d) ==
    Join(<< <<BSTART>> >>
         \o [i \in 1..Len(d) |->
                <<"        " \o format_swift_array_item(d[i], FALSE) \o ",">>]
         \o << <<CLOSE4>> >>, <<NL>>)

\* lines 35-64
generate_type_methods(type_name, methods) ==
    Join(<< <<DOCPFX, capitalize(type_name), TM,
              " - for use when type inference determines an object is a "
                  \o type_name>>,
            <<struct_head(type_map(type_name)[1])>>,
            <<SBODY>> >>
         \o [i \in 1..Len(methods) |->
                <<"            " \o format_swift_array_item(methods[i], FALSE)
                      \o ",">>]
         \o << <<SCLOSE>>, <<SBRACE>> >>, <<NL>>)

\* a variant that emits the module list in the order of the record
gen_generate_math_module_inOrder(d) ==
    Join(<< <<MSTART>> >>
         \o [i \in 1..Len(d) |->
                <<"        " \o format_swift_array_item(d[i], IsConstant(d[i]))
                      \o ",">>]
         \o << <<CLOSE4>> >>, <<NL>>)

\* lines 66-90
gen_generate_math_module(d) ==
    LET constants == SelectSeq(d, IsConstant)
        functions == SelectSeq(d, IsFunction)
    IN  Join(<< <<MSTART>> >>
             \o (IF constants # <<>>
                 THEN << <<"        // Math module constants">> >> ELSE <<>>)
             \o [i \in 1..Len(constants) |->
                    <<"        " \o format_swift_array_item(constants[i], TRUE)
                          \o ",">>]
             \o (IF functions # <<>> /\ constants # <<>>
                 THEN << <<>>, <<"        // Math module functions">> >>
                 ELSE <<>>)
             \o [i \in 1..Len(functions) |->
                    <<"        " \o format_swift_array_item(functions[i], FALSE)
                          \o ",">>]
             \o << <<CLOSE4>> >>, <<NL>>)

\* datetime.now().isoformat() for the clock reading t: one line, no line feed
isoformat(t) == "2025-01-01T00:00:0" \o ToString(t)

\* a variant that stamps the first header line too
gen_header_stamped(now) ==
    << <<"// MARK: - Generated Python Completions " \o isoformat(now)>>,
       <<"// Generated from Python 3.13 documentation using inspect.getdoc()">>,
       <<"// Generated on: " \o isoformat(now)>>,
       <<>> >>

\* lines 109-112
gen_header(now) ==
    << <<"// MARK: - Generated Python Completions">>,
       <<"// Generated from Python 3.13 documentation using inspect.getdoc()">>,
       <<"// Generated on: " \o isoformat(now)>>,
       <<>> >>

\* a variant that lists list before str
gen_type_order_listFirst ==
    <<"list", "str", "dict", "set", "frozenset", "bytes", "bytearray", "tuple">>

\* line 122
gen_type_order ==
    <<"str", "list", "dict", "set", "frozenset", "bytes", "bytearray", "tuple">>

\* lines 123-128: the elements swift_code gets for the types from index i on
RECURSIVE gen_type_blocks(_, _)
gen_type_blocks(d, i) ==
    IF i > Len(gen_type_order) THEN <<>>
    ELSE (IF gen_type_order[i] \in DOMAIN d.type_methods
          THEN << <<"    // MARK: - " \o capitalize(gen_type_order[i])
                        \o " Methods">>,
                  generate_type_methods(gen_type_order[i],
                                        d.type_methods[gen_type_order[i]]),
                  <<>> >>
          ELSE <<>>)
         \o gen_type_blocks(d, i + 1)

\* lines 106-137: output_content
gen_output(d, now) ==
    Join(gen_header(now)
         \o << <<"    // MARK: - Built-in Functions">>,
               gen_generate_builtin_functions(d.builtin_functions),
               <<>> >>
         \o gen_type_blocks(d, 1)
         \o << <<"    // MARK: - Math Module">>,
               gen_generate_math_module(d.math_module),
               <<>> >>, <<NL>>)

GenInit ==
    /\ gen_pc = "start"
    /\ gen_data \in GenRecords
    /\ gen_now = 0
    /\ gen_file = <<>>
    /\ gen_prev = <<>>
    /\ gen_runs = 0

\* lines 92-139: one run of main, at a clock reading not before the last one
GenRun ==
    /\ gen_pc \in {"start", "generated"}
    /\ gen_runs < MaxGenRuns
    /\ \E t \in 0..MaxClock :
           /\ t >= gen_now
           /\ gen_now' = t
           /\ gen_file' = gen_output(gen_data, t)
    /\ gen_prev' = gen_file
    /\ gen_runs' = gen_runs + 1
    /\ gen_pc' = "generated"
    /\ UNCHANGED <<gen_data, applyVars, rsVars, pipeVars>>

InitGen == ApplyIdle /\ RSIdle /\ GenInit /\ PipeIdle

SpecGen == InitGen /\ [][GenRun]_vars

\* ------------------------------------------------- harvest_python_docs.py
\* line 36: the length after which clean_docstring takes no further line
DocLimit == 300

\* the characters str.strip() and str.split() take for white space
IsSpace(c) == c \in {" ", "\n", "\r", "\t"}

RECURSIVE lstrip(_)
lstrip(s) == IF s # <<>> /\ IsSpace(s[1]) THEN lstrip(Tail(s)) ELSE s

RECURSIVE rstrip(_)
rstrip(s) ==
    IF s # <<>> /\ IsSpace(s[Len(s)]) THEN rstrip(SubSeq(s, 1, Len(s) - 1))
    ELSE s

\* s.strip()
strip(s) == rstrip(lstrip(s))

\* s.split('\n')
RECURSIVE split_lines(_)
split_lines(s) ==
    IF \A k \in 1..Len(s) : s[k] # NL THEN <<s>>
    ELSE LET i == CHOOSE i \in 1..Len(s) :
                      s[i] = NL /\ \A k \in 1..(i - 1) : s[k] # NL
         IN  <<SubSeq(s, 1, i - 1)>> \o split_lines(SubSeq(s, i + 1, Len(s)))

\* s.replace(c, new) for a one-character c: each c of s becomes new, and
\* the two halves of s are replaced independently
RECURSIVE ReplaceChar(_, _, _)
ReplaceChar(s, c, new) ==
    IF s = <<>> THEN <<>>
    ELSE IF Len(s) = 1 THEN (IF s[1] = c THEN new ELSE s)
    ELSE ReplaceChar(SubSeq(s, 1, Len(s) \div 2), c, new)
             \o ReplaceChar(SubSeq(s, Len(s) \div 2 + 1, Len(s)), c, new)

\* s.split(): the runs of characters that are not white space
RECURSIVE split_ws(_)
split_ws(s) ==
    LET t == lstrip(s)
    IN  IF t = <<>> THEN <<>>
        ELSE LET n == CHOOSE n \in 1..Len(t) :
                          /\ n = Len(t) \/ IsSpace(t[n + 1])
                          /\ \A k \in 1..n : ~IsSpace(t[k])
             IN  <<SubSeq(t, 1, n)>> \o split_ws(SubSeq(t, n + 1, Len(t)))

\* lines 25-26: remove empty lines at start
RECURSIVE drop_empty(_)
drop_empty(lines) ==
    IF lines # <<>> /\ strip(lines[1]) = <<>> THEN drop_empty(Tail(lines))
    ELSE lines

\* a variant that skips the empty lines and goes on to the next paragraph
RECURSIVE first_paragraph_allLines(_, _, _)
first_paragraph_allLines(lines, i, result_lines) ==
    IF i > Len(lines) THEN result_lines
    ELSE LET stripped == strip(lines[i])
             appended == IF stripped # <<>> THEN Append(result_lines, stripped)
                         ELSE result_lines
         IN  IF Len(Join(appended, <<" ">>)) > DocLimit THEN appended
             ELSE first_paragraph_allLines(lines, i + 1, appended)

\* lines 29-37: the loop from line i on, with result_lines so far
RECURSIVE first_paragraph(_, _, _)
first_paragraph(lines, i, result_lines) ==
    IF i > Len(lines) THEN result_lines
    ELSE LET stripped == strip(lines[i])
             appended == IF stripped # <<>> THEN Append(result_lines, stripped)
                         ELSE result_lines
         IN  IF stripped = <<>> /\ result_lines # <<>> THEN result_lines
             ELSE IF Len(Join(appended, <<" ">>)) > DocLimit THEN appended
             ELSE first_paragraph(lines, i + 1, appended)

\* a variant that escapes the quotes first and the backslashes after
escape_swift_quotesFirst(doc_text) ==
    ReplaceChar(ReplaceChar(ReplaceChar(ReplaceChar(doc_text,
        "\"", <<"\\", "\"">>),
        "\\", <<"\\", "\\">>),
        NL, <<" ">>),
        "\r", <<" ">>)

\* lines 42-45
escape_swift(doc_text) ==
    ReplaceChar(ReplaceChar(ReplaceChar(ReplaceChar(doc_text,
        "\\", <<"\\", "\\">>),
        "\"", <<"\\", "\"">>),
        NL, <<" ">>),
        "\r", <<" ">>)

\* lines 16-50; None and '' both return at line 19
clean_docstring(doc) ==
    IF doc = <<>> THEN <<>>
    ELSE Join(split_ws(escape_swift(Join(
             first_paragraph(drop_empty(split_lines(strip(doc))), 1, <<>>),
             <<" ">>))), <<" ">>)

\* the doc texts: every short text over these characters, and long lines
DocChars == {"a", " ", NL, "\r", "\"", "\\"}

Rep(c, n) == [i \in 1..n |-> c]

LongDocs ==
    { Rep("a", DocLimit), Rep("a", DocLimit + 1),
      Rep("a", DocLimit - 1) \o <<NL>> \o Rep("b", 2),
      Rep("a", DocLimit + 1) \o <<NL>> \o Rep("b", 2),
      Rep("\"", DocLimit) }

\* texts of more than one paragraph
ParagraphDocs ==
    { <<"a", NL, NL, "b">>,
      <<NL, " ", NL, "a", " ", NL, " ", " ", "b", NL, "\r", NL, "c">>,
      <<"a", NL, "b", NL, NL, "c", NL, NL, "d">>,
      Rep("a", DocLimit - 2) \o <<NL, "b", NL, NL, "c">>,
      Rep("a", DocLimit - 1) \o <<NL, "b", NL, "c", NL, NL, "d">> }

Docs == SeqsUpTo(DocChars, MaxDoc) \cup LongDocs \cup ParagraphDocs

DocInit ==
    /\ cd_pc = "called"
    /\ cd_doc \in Docs
    /\ cd_ret = <<>>

\* lines 16-50
CleanDocstring ==
    /\ cd_pc = "called"
    /\ cd_ret' = clean_docstring(cd_doc)
    /\ cd_pc' = "returned"
    /\ UNCHANGED <<cd_doc, applyVars, rsVars, genVars, nsVars, bkVars, sigVars, harvestVars,
                   emitVars, mathVars>>

InitDoc == ApplyIdle /\ RSIdle /\ GenIdle /\ DocInit /\ SigIdle
               /\ HarvestIdle /\ EmitIdle /\ MathIdle /\ LaterIdle

SpecDoc == InitDoc /\ [][CleanDocstring]_vars

\* ----------------------------------------------- get_function_signature
\* A parameter of inspect.signature(func): its name as characters, its kind
\* and its default. A default is Parameter.empty, a str, None, an int or a
\* bool.
Empty          == [tag |-> "empty"]
NoneDefault    == [tag |-> "None"]
StrDefault(v)  == [tag |-> "str", str |-> v]
IntDefault(n)  == [tag |-> "int", int |-> n]
BoolDefault(b) == [tag |-> "bool", bool |-> b]

SELF == <<"s", "e", "l", "f">>

\* str(n) of a natural number, and of an integer
RECURSIVE digits(_)
digits(n) ==
    (IF n >= 10 THEN digits(n \div 10) ELSE <<>>)
        \o <<(<<"0", "1", "2", "3", "4", "5", "6", "7", "8", "9">>)[(n % 10) + 1]>>

\* str(default_val) of line 71
py_str(d) ==
    CASE d.tag = "int"  -> IF d.int < 0 THEN <<"-">> \o digits(0 - d.int)
                           ELSE digits(d.int)
      [] d.tag = "bool" -> IF d.bool THEN <<"T", "r", "u", "e">>
                           ELSE <<"F", "a", "l", "s", "e">>

\* a variant that renders a variadic keyword parameter with one star
param_str_oneStar(p) ==
    IF p.default # Empty
    THEN (IF p.default.tag = "str"
          THEN p.name \o <<"=", "'">> \o p.default.str \o <<"'">>
          ELSE IF p.default.tag = "None"
          THEN p.name \o <<"=", "N", "o", "n", "e">>
          ELSE p.name \o <<"=">> \o py_str(p.default))
    ELSE IF p.kind \in {"VAR_POSITIONAL", "VAR_KEYWORD"} THEN <<"*">> \o p.name
    ELSE p.name

\* lines 61-75: param_str of one parameter
param_str(p) ==
    IF p.default # Empty
    THEN (IF p.default.tag = "str"
          THEN p.name \o <<"=", "'">> \o p.default.str \o <<"'">>
          ELSE IF p.default.tag = "None"
          THEN p.name \o <<"=", "N", "o", "n", "e">>
          ELSE p.name \o <<"=">> \o py_str(p.default))
    ELSE IF p.kind = "VAR_POSITIONAL" THEN <<"*">> \o p.name
    ELSE IF p.kind = "VAR_KEYWORD" THEN <<"*", "*">> \o p.name
    ELSE p.name

\* lines 57-59: the parameters the loop does not skip
NotSelf(p) == p.name # SELF

\* lines 52-82: <<func.__name__, params>>; inspect.signature raises
\* ValueError or TypeError for a func with sigfail
get_function_signature(func) ==
    IF func.sigfail THEN <<func.name, <<>> >>
    ELSE LET kept == SelectSeq(func.parameters, NotSelf)
         IN  <<func.name, [i \in 1..Len(kept) |-> param_str(kept[i])]>>

\* the signatures inspect.signature can return: distinct names, the kinds in
\* the order positional, *args, keyword-only, **kwargs, no positional
\* parameter without a default after one with a default
SigNames == {SELF, <<"x">>, <<"s", "e", "p">>}

Defaults ==
    {Empty, NoneDefault, StrDefault(<<" ">>), StrDefault(<<"\"">>),
     IntDefault(0 - 1), IntDefault(10), BoolDefault(TRUE)}

Params ==
    [name : SigNames, kind : {"POSITIONAL_OR_KEYWORD", "KEYWORD_ONLY"},
     default : Defaults]
    \cup [name : SigNames, kind : {"VAR_POSITIONAL", "VAR_KEYWORD"},
          default : {Empty}]

KindRank(k) ==
    CASE k = "POSITIONAL_OR_KEYWORD" -> 1
      [] k = "VAR_POSITIONAL" -> 2
      [] k = "KEYWORD_ONLY" -> 3
      [] k = "VAR_KEYWORD" -> 4

ValidSig(sig) ==
    \A i, j \in 1..Len(sig) :
        i < j =>
            /\ sig[i].name # sig[j].name
            /\ KindRank(sig[i].kind) <= KindRank(sig[j].kind)
            /\ sig[i].kind = sig[j].kind => sig[i].kind \notin
                   {"VAR_POSITIONAL", "VAR_KEYWORD"}
            /\ (sig[i].kind = "POSITIONAL_OR_KEYWORD"
                    /\ sig[j].kind = "POSITIONAL_OR_KEYWORD"
                    /\ sig[i].default # Empty) => sig[j].default # Empty

Sigs == {sig \in SeqsUpTo(Params, MaxParams) : ValidSig(sig)}

Funcs ==
    [name : {"f"}, sigfail : {FALSE}, parameters : Sigs]
        \cup {[name |-> "f", sigfail |-> TRUE, parameters |-> <<>>]}

SigInit ==
    /\ sg_pc = "called"
    /\ sg_func \in Funcs
    /\ sg_ret = <<>>

\* lines 52-82
GetFunctionSignature ==
    /\ sg_pc = "called"
    /\ sg_ret' = get_function_signature(sg_func)
    /\ sg_pc' = "returned"
    /\ UNCHANGED <<sg_func, applyVars, rsVars, genVars, nsVars, bkVars, docVars, harvestVars,
                   emitVars, mathVars>>

InitSig == ApplyIdle /\ RSIdle /\ GenIdle /\ DocIdle /\ SigInit
               /\ HarvestIdle /\ EmitIdle /\ MathIdle /\ LaterIdle

SpecSig == InitSig /\ [][GetFunctionSignature]_vars

\* ------------------------------------------- harvest_builtin_functions
\* lines 89-100: the allow-list, its first MaxNames names
builtin_names ==
    SubSeq(<<"abs", "all", "any", "ascii", "bin", "bool", "breakpoint",
             "bytearray">>, 1, MaxNames)

\* what builtins may hold for an allow-listed name: nothing, or a callable
\* with a doc text and a signature, or one inspect.signature fails for
Missing == [present |-> FALSE]

RuntimeObjects(name) ==
    { Missing,
      [present |-> TRUE, name |-> name, doc |-> <<"R", "e", "t", ".">>,
       sigfail |-> FALSE,
       parameters |-> << [name |-> <<"x">>, kind |-> "POSITIONAL_OR_KEYWORD",
                          default |-> Empty] >>],
      [present |-> TRUE, name |-> name, doc |-> <<"a", NL, NL, "b">>,
       sigfail |-> FALSE,
       parameters |-> << [name |-> <<"x">>, kind |-> "VAR_POSITIONAL",
                          default |-> Empty],
                         [name |-> <<"s", "e", "p">>, kind |-> "KEYWORD_ONLY",
                          default |-> StrDefault(<<" ">>)] >>],
      [present |-> TRUE, name |-> name, doc |-> <<"a", " ", "\"", "b", "\"">>,
       sigfail |-> TRUE, parameters |-> <<>>] }

\* a print of the run: its text and the allow-listed name it is about, if any
Printed(text, about) == [text |-> text, about |-> about]

\* a variant that drops an item whose signature extraction failed
harvested_dropsFailed(func) ==
    IF func.sigfail THEN <<>>
    ELSE << [name |-> get_function_signature(func)[1],
             params |-> get_function_signature(func)[2],
             doc |-> Str(clean_docstring(func.doc))] >>

\* lines 104-116: what functions.append is given for the callable func
harvested(func) ==
    << [name |-> get_function_signature(func)[1],
        params |-> get_function_signature(func)[2],
        doc |-> Str(clean_docstring(func.doc))] >>

\* lines 203-207 of main, then harvest_builtin_functions is entered
HarvestInit ==
    /\ hv_pc = "builtins"
    /\ hv_runtime \in {rt \in [1..Len(builtin_names) ->
                                  UNION {RuntimeObjects(builtin_names[i]) :
                                             i \in 1..Len(builtin_names)}] :
                          \A i \in 1..Len(builtin_names) :
                              rt[i] \in RuntimeObjects(builtin_names[i])}
    /\ hv_i = 1
    /\ hv_functions = <<>>
    /\ hv_log = <<Printed("Harvesting Python 3.13 documentation...", ""),
                  Printed("Harvesting built-in functions...", "")>>

\* lines 102-116: one iteration of the loop over builtin_names
HarvestStep ==
    /\ hv_pc = "builtins"
    /\ hv_i <= Len(builtin_names)
    /\ hv_functions' = IF hv_runtime[hv_i].present
                       THEN hv_functions \o harvested(hv_runtime[hv_i])
                       ELSE hv_functions
    /\ hv_i' = hv_i + 1
    /\ UNCHANGED <<hv_pc, hv_runtime, hv_log, applyVars, rsVars, genVars, nsVars, bkVars,
                   docVars, sigVars, emitVars, mathVars>>

\* line 118, and lines 208-209 of main
HarvestFound ==
    /\ hv_pc = "builtins"
    /\ hv_i > Len(builtin_names)
    /\ hv_log' = Append(hv_log,
                        Printed("   Found " \o ToString(Len(hv_functions))
                                    \o " built-in functions", ""))
    /\ hv_pc' = "found"
    /\ UNCHANGED <<hv_runtime, hv_i, hv_functions, applyVars, rsVars, genVars, nsVars, bkVars,
                   docVars, sigVars, emitVars, mathVars>>

HarvestNext == HarvestStep \/ HarvestFound

InitHarvest == ApplyIdle /\ RSIdle /\ GenIdle /\ DocIdle /\ SigIdle
                   /\ HarvestInit /\ EmitIdle /\ MathIdle /\ LaterIdle

SpecHarvest == InitHarvest /\ [][HarvestNext]_vars

\* ------------------------------ format_swift_array_item, as characters
\* The fixed texts of the f-strings of lines 16 and 22, without the double
\* quotes around each value.
P_FUNCTION ==
    <<".", "f", "u", "n", "c", "t", "i", "o", "n", "(", "n", "a", "m", "e",
      ":", " ">>

P_CONSTANT ==
    <<".", "c", "o", "n", "s", "t", "a", "n", "t", "(", "n", "a", "m", "e",
      ":", " ">>

P_PARAMS ==
    <<",", " ", "p", "a", "r", "a", "m", "e", "t", "e", "r", "s", ":", " ",
      "[">>

P_VALUE ==
    <<",", " ", "v", "a", "l", "u", "e", ":", " ">>

P_DOC ==
    <<",", " ", "d", "o", "c", "u", "m", "e", "n", "t", "a", "t", "i", "o",
      "n", ":", " ">>
QUOTE == <<"\"">>

\* a variant that lists the parameters last to first
format_item_reversed(item, is_constant) ==
    IF is_constant
    THEN P_CONSTANT \o QUOTE \o item.name \o QUOTE
             \o P_VALUE \o QUOTE \o Get(item, "value", <<>>) \o QUOTE
             \o P_DOC \o QUOTE \o item.doc \o QUOTE \o <<")">>
    ELSE P_FUNCTION \o QUOTE \o item.name \o QUOTE
             \o P_PARAMS
             \o params_str([i \in 1..Len(Get(item, "params", <<>>)) |->
                    Get(item, "params", <<>>)[
                        Len(Get(item, "params", <<>>)) + 1 - i]])
             \o <<"]">>
             \o P_DOC \o QUOTE \o item.doc \o QUOTE \o <<")">>

\* lines 10-22: the entry of an item whose name, value, parameters and doc
\* are given as characters
format_item(item, is_constant) ==
    IF is_constant
    THEN P_CONSTANT \o QUOTE \o item.name \o QUOTE
             \o P_VALUE \o QUOTE \o Get(item, "value", <<>>) \o QUOTE
             \o P_DOC \o QUOTE \o item.doc \o QUOTE \o <<")">>
    ELSE P_FUNCTION \o QUOTE \o item.name \o QUOTE
             \o P_PARAMS \o params_str(Get(item, "params", <<>>)) \o <<"]">>
             \o P_DOC \o QUOTE \o item.doc \o QUOTE \o <<")">>

\* The items the emitter is given: the parameter texts get_function_signature
\* renders for a parameter x, the doc texts clean_docstring returns, the
\* values str() gives for a float.
EmitParamTexts ==
    {param_str(p) : p \in {p \in Params : p.name = <<"x">>}}

EmitDocs ==
    {clean_docstring(d) :
         d \in {<<>>, <<"a", NL, "b">>, <<"\"", "\\">>}}

EmitNames == {<<"f">>, <<"m", ".", "e">>}

EmitItems ==
    [name : EmitNames, params : SeqsUpTo(EmitParamTexts, MaxParams),
     doc : EmitDocs]
    \cup [type : {"function"}, name : EmitNames,
          params : SeqsUpTo(EmitParamTexts, 1), doc : EmitDocs]
    \cup [type : {"constant"}, name : EmitNames,
          value : {<<"2", ".", "7">>, <<"i", "n", "f">>}, doc : EmitDocs]

EmitInit ==
    /\ em_pc = "called"
    /\ em_item \in EmitItems
    /\ em_out = <<>>

\* lines 10-22, called as generate_math_module calls it (lines 78 and 86)
FormatItem ==
    /\ em_pc = "called"
    /\ em_out' = format_item(em_item, IsConstant(em_item))
    /\ em_pc' = "returned"
    /\ UNCHANGED <<em_item, applyVars, rsVars, genVars, nsVars, bkVars, docVars, sigVars,
                   harvestVars, mathVars>>

InitEmit == ApplyIdle /\ RSIdle /\ GenIdle /\ DocIdle /\ SigIdle
                /\ HarvestIdle /\ EmitInit /\ MathIdle /\ LaterIdle

SpecEmit == InitEmit /\ [][FormatItem]_vars

\* ------------------------------------- the two generate_math_module
\* two more items of the module list
MATH_E ==
    [type |-> "constant", name |-> "math.e", value |-> "2.718281828459045",
     doc |-> ""]

FLOOR ==
    [type |-> "function", name |-> "math.floor", params |-> << <<"x">> >>,
     doc |-> "Return the floor of x as an Integral."]

MathLists == SeqsUpTo({PI, MATH_E, SQRT, FLOOR}, MaxMath)

MathInit ==
    /\ mm_pc = "called"
    /\ mm_data \in MathLists
    /\ mm_gen = <<>>
    /\ mm_apply = <<>>

\* generate_swift_completions.py lines 66-90 and apply_harvested_docs.py
\* lines 87-117, each called on the module list
MathModule ==
    /\ mm_pc = "called"
    /\ mm_gen' = gen_generate_math_module(mm_data)
    /\ mm_apply' = apply_generate_math_module(mm_data)
    /\ mm_pc' = "returned"
    /\ UNCHANGED <<mm_data, applyVars, rsVars, genVars, nsVars, bkVars, docVars, sigVars,
                   harvestVars, emitVars>>

InitMath == ApplyIdle /\ RSIdle /\ GenIdle /\ DocIdle /\ SigIdle
                /\ HarvestIdle /\ EmitIdle /\ MathInit /\ LaterIdle

SpecMath == InitMath /\ [][MathModule]_vars

\* ------------------------------------ the blocks of the two emitters
\* Items whose parameters hold the texts line 47 looks for, under other names
INPUT ==
    [name |-> "input",
     params |-> << <<"e", "n", "d", "=", "'", "x", "'">>,
                   <<"s", "e", "p", "=", "'", " ", "'">> >>,
     doc |-> "Read a string from standard input."]

DIST ==
    [type |-> "function", name |-> "math.dist",
     params |-> << <<"e", "n", "d", "=", "'", "x", "'">> >>,
     doc |-> "Return the Euclidean distance."]

\* the records: some built-in items, one container type, a module list
BkRecords ==
    [builtin_functions : SeqsUpTo({ABS, PRINT, INPUT}, MaxItems),
     type_methods : UNION {[{t} -> {<<>>, <<UPPER>>, <<PRINT>>}] : t \in AllTypes},
     math_module : {<<>>, <<SQRT, PI>>, <<DIST>>}]

BkInit ==
    /\ bk_pc = "loaded"
    /\ bk_data \in BkRecords
    /\ bk_apply = <<>>
    /\ bk_gen = <<>>
    /\ bk_found = <<>>

\* The blocks both scripts generate for the record (apply lines 141, 155 and
\* 180, generator lines 117, 127 and 133), the params_str of each built-in
\* line of apply, and what apply's struct search (lines 156-166) finds in the
\* struct block apply generates.
EmitBlocks ==
    /\ bk_pc = "loaded"
    /\ bk_apply' =
           [builtin |-> apply_generate_builtin_functions(bk_data.builtin_functions),
            params |-> [i \in 1..Len(bk_data.builtin_functions) |->
                           builtin_params(bk_data.builtin_functions[i])],
            types |-> [t \in DOMAIN bk_data.type_methods |->
                          generate_type_methods_struct(t, bk_data.type_methods[t])],
            math |-> apply_generate_math_module(bk_data.math_module)]
    /\ bk_gen' =
           [builtin |-> gen_generate_builtin_functions(bk_data.builtin_functions),
            types |-> [t \in DOMAIN bk_data.type_methods |->
                          generate_type_methods(t, bk_data.type_methods[t])],
            math |-> gen_generate_math_module(bk_data.math_module)]
    /\ bk_found' =
           [t \in DOMAIN bk_data.type_methods \cap {type_order[i] :
                                                     i \in 1..Len(type_order)} |->
               Search(generate_type_methods_struct(t, bk_data.type_methods[t]),
                      struct_regex(t))]
    /\ bk_pc' = "emitted"
    /\ UNCHANGED <<bk_data, applyVars, rsVars, genVars, docVars, sigVars,
                   harvestVars, emitVars, mathVars, nsVars>>

InitBlocks ==
    ApplyIdle /\ RSIdle /\ GenIdle /\ DocIdle /\ SigIdle /\ HarvestIdle
        /\ EmitIdle /\ MathIdle /\ NsIdle /\ BkInit

SpecBlocks == InitBlocks /\ [][EmitBlocks]_vars

\* --------------------------- harvest_type_methods, harvest_math_module
MaxAttrs == 3

\* the names dir() may return, in the order dir() returns them (sorted)
AttrNames ==
    << <<"_", "_", "l", "e", "n", "_", "_">>, <<"_", "h">>,
       <<"a", "_", "b">>, <<"i", "n", "f">>, <<"t">> >>

\* what getattr gives for a name: a callable with a doc text and a signature,
\* a callable inspect.signature fails for, a value that is not callable, or
\* AttributeError
Method(doc, sigfail, parameters) ==
    [kind |-> "callable", name |-> "m", doc |-> doc, sigfail |-> sigfail,
     parameters |-> parameters]

Value(v, doc) == [kind |-> "value", value |-> v, doc |-> doc]

Raises == [kind |-> "raises"]

Inf(neg) == [tag |-> "inf", neg |-> neg]
NaN == [tag |-> "nan"]
Whole(n) == [tag |-> "float", whole |-> n]

AttrObjects ==
    { Method(<<"R", "e", "t", ".", NL, NL, "M", "o", "r", "e">>, FALSE,
             << [name |-> SELF, kind |-> "POSITIONAL_OR_KEYWORD",
                 default |-> Empty],
                [name |-> <<"x">>, kind |-> "POSITIONAL_OR_KEYWORD",
                 default |-> NoneDefault] >>),
      Method(<<>>, TRUE, <<>>),
      Value(IntDefault(3), <<"i", "n", "t", "(", "x", ")">>),
      Value(Inf(FALSE), <<"C", "o", "n", "v", "e", "r", "t", ".">>),
      Value(Whole(2), <<"C", "o", "n", "v", "e", "r", "t", ".">>),
      Value(NaN, <<>>) }

\* the elements of a set of numbers in increasing order
Ascending(S) ==
    [k \in 1..Cardinality(S) |->
        CHOOSE x \in S : Cardinality({y \in S : y < x}) = k - 1]

\* the namespaces: dir() names are distinct and sorted
Namespaces(objects) ==
    UNION { { [k \in 1..Cardinality(S) |->
                  [name |-> AttrNames[Ascending(S)[k]], attr |-> f[k]]] :
              f \in [1..Cardinality(S) -> objects] } :
            S \in {T \in SUBSET (1..Len(AttrNames)) :
                       Cardinality(T) <= MaxAttrs} }

\* name.startswith('_')
startswith_underscore(name) == Len(name) >= 1 /\ name[1] = "_"

\* str(attr) of a value that is not callable
str_of(v) ==
    CASE v.tag = "inf" -> IF v.neg THEN <<"-", "i", "n", "f">>
                          ELSE <<"i", "n", "f">>
      [] v.tag = "nan" -> <<"n", "a", "n">>
      [] v.tag = "float" -> digits(v.whole) \o <<".", "0">>
      [] OTHER -> py_str(v)

\* a variant that keeps the names that begin with an underscore
type_item_keepsPrivate(a) ==
    IF a.attr.kind = "callable"
    THEN << [name |-> Str(a.name),
             params |-> get_function_signature(a.attr)[2],
             doc |-> Str(clean_docstring(a.attr.doc))] >>
    ELSE <<>>

\* lines 126-144: one iteration of the loop of harvest_type_methods
type_item(a) ==
    IF startswith_underscore(a.name) THEN <<>>
    ELSE IF a.attr.kind = "raises" THEN <<>>
    ELSE IF a.attr.kind = "callable"
    THEN << [name |-> Str(a.name),
             params |-> get_function_signature(a.attr)[2],
             doc |-> Str(clean_docstring(a.attr.doc))] >>
    ELSE <<>>

\* lines 153-178: one iteration of the loop of harvest_math_module
module_item(a) ==
    IF startswith_underscore(a.name) THEN <<>>
    ELSE IF a.attr.kind = "callable"
    THEN << [type |-> "function", name |-> "math." \o Str(a.name),
             params |-> get_function_signature(a.attr)[2],
             doc |-> Str(clean_docstring(a.attr.doc))] >>
    ELSE << [type |-> "constant", name |-> "math." \o Str(a.name),
             value |-> Str(str_of(a.attr.value)),
             doc |-> Str(clean_docstring(a.attr.doc))] >>

RECURSIVE harvest_type_methods(_)
harvest_type_methods(names) ==
    IF names = <<>> THEN <<>>
    ELSE type_item(Head(names)) \o harvest_type_methods(Tail(names))

RECURSIVE harvest_math_module(_)
harvest_math_module(names) ==
    IF names = <<>> THEN <<>>
    ELSE module_item(Head(names)) \o harvest_math_module(Tail(names))

\* a call of harvest_type_methods on a type, or of harvest_math_module on a
\* module, whose attributes can all be fetched
NsInit ==
    /\ ns_pc \in {"type", "module"}
    /\ ns_dir \in IF ns_pc = "type" THEN Namespaces(AttrObjects \cup {Raises})
                  ELSE Namespaces(AttrObjects)
    /\ ns_methods = <<>>
    /\ ns_items = <<>>

\* lines 120-146
HarvestTypeMethods ==
    /\ ns_pc = "type"
    /\ ns_methods' = harvest_type_methods(ns_dir)
    /\ ns_pc' = "type_done"
    /\ UNCHANGED <<ns_dir, ns_items, applyVars, rsVars, genVars, docVars,
                   sigVars, harvestVars, emitVars, mathVars, bkVars>>

\* lines 148-180
HarvestMathModule ==
    /\ ns_pc = "module"
    /\ ns_items' = harvest_math_module(ns_dir)
    /\ ns_pc' = "module_done"
    /\ UNCHANGED <<ns_dir, ns_methods, applyVars, rsVars, genVars, docVars,
                   sigVars, harvestVars, emitVars, mathVars, bkVars>>

InitNamespace ==
    ApplyIdle /\ RSIdle /\ GenIdle /\ DocIdle /\ SigIdle /\ HarvestIdle
        /\ EmitIdle /\ MathIdle /\ BkIdle /\ NsInit

SpecNamespace ==
    InitNamespace /\ [][HarvestTypeMethods \/ HarvestMathModule]_vars

\* ------------------------------------------- the module list, by form
\* Items in the two forms generate_swift_completion_array tells apart by the
\* 'value' key (harvest_python_docs.py lines 188-195), without a 'type' key
TAU ==
    [name |-> "math.tau", value |-> "6.283185307179586",
     doc |-> "The mathematical constant tau."]

CEIL ==
    [name |-> "math.ceil", params |-> << <<"x">> >>,
     doc |-> "Return the ceiling of x as an Integral."]

FormLists == SeqsUpTo({PI, SQRT, TAU, CEIL}, MaxMath)

FormInit ==
    /\ mm_pc = "called"
    /\ mm_data \in FormLists
    /\ mm_gen = <<>>
    /\ mm_apply = <<>>

InitForms == ApplyIdle /\ RSIdle /\ GenIdle /\ DocIdle /\ SigIdle
                 /\ HarvestIdle /\ EmitIdle /\ FormInit /\ LaterIdle

SpecForms == InitForms /\ [][MathModule]_vars

\* ----------------------------------------------------------- properties
\* the number of places where sub occurs in s
Count(s, sub) == Cardinality({i \in 0..Len(s) : Occurs(s, sub, i)})

\* the start marker of r occurs in F, and its end marker after it
Located(F, r) ==
    \E i, j \in 0..Len(F) :
        /\ Occurs(F, start_marker(r), i)
        /\ Occurs(F, end_marker(r), j)
        /\ j >= i + Len(start_marker(r))

\* the struct header lines
StructHeads ==
    {struct_head(type_map(t)[1]) : t \in AllTypes}
        \cup {struct_head(pattern_name(t)) : t \in AllTypes}

NoStructHeader(F) == \A i \in 1..Len(F) : F[i] \notin StructHeads

Running == pc \in {"builtin", "types", "math", "writeback"}

\* C1: apply is idempotent: a second run of apply, on the text the first run
\* left and with the same record, changes nothing and does not write.
C1_Idempotent ==
    (run >= 2 /\ pc = "done") => (content = original_content /\ ~opened)

\* C2: for a text with the start marker of a replace_section region once and
\* its end marker once, later, the text after the replacement is the text
\* before the start marker, the fresh block, and the text that followed the
\* region, and holds each marker exactly once.
C2_RegionReplaced ==
    \A r \in RSRegions :
        ( /\ last = r
          /\ Count(prev, start_marker(r)) = 1
          /\ Count(prev, end_marker(r)) = 1
          /\ Located(prev, r) )
        => LET s == CHOOSE i \in 0..Len(prev) : Occurs(prev, start_marker(r), i)
               e == CHOOSE j \in 0..Len(prev) : Occurs(prev, end_marker(r), j)
           IN  /\ content = Slice(prev, 0, s) \o new_content(r, data)
                              \o Slice(prev, e + Len(end_marker(r)), Len(prev))
               /\ Count(content, start_marker(r)) = 1
               /\ Count(content, end_marker(r)) = 1

\* the struct block of type t lies at [a, b) of F: its doc-comment line, its
\* header and everything to its closing brace, and no other block
OwnBlock(F, a, b, t) ==
    LET blk == Slice(F, a, b)
    IN  /\ Len(blk) >= 9
        /\ blk[1] = DOCPFX
        /\ blk[3] = TM
        /\ blk[5] = NL
        /\ blk[6] = struct_head(type_map(t)[1])
        /\ Slice(blk, Len(blk) - 3, Len(blk)) = <<SCLOSE, NL, SBRACE>>
        /\ Count(blk, <<DOCPFX>>) = 1
        /\ Count(blk, <<SBRACE>>) = 1

\* C3: replacing the struct of a type changes only that type's own block.
C3_OnlyOwnStruct ==
    last \in AllTypes =>
        \E a, b \in 0..Len(prev) :
            /\ OwnBlock(prev, a, b, last)
            /\ content = Slice(prev, 0, a)
                           \o generate_type_methods_struct(
                                  last, data.type_methods[last])
                           \o Slice(prev, b, Len(prev))

\* C4: a text in which no region can be located (for each replace_section
\* region the start marker is absent or no end marker follows it, and there
\* is no struct header) is left as it is, and the target file is not written.
C4_MarkerIsolation ==
    ( /\ pc \notin {"read", "idle"}
      /\ \A r \in RSRegions : ~Located(original_content, r)
      /\ NoStructHeader(original_content) )
    => ( /\ content = original_content
         /\ ~opened
         /\ disk = original_content )

C4_Witness ==
    /\ pc = "done"
    /\ \A r \in RSRegions : ~Located(original_content, r)
    /\ NoStructHeader(original_content)
    /\ Count(original_content, <<BSTART>>) = 1
    /\ Count(original_content, <<DOCPFX>>) = 1
    /\ DOMAIN data.type_methods # {}
    /\ content = original_content
    /\ disk = original_content

\* C5: every region whose markers are in the text the run read is replaced
\* with its fresh block, whichever other regions miss theirs, and the file is
\* written when the text changed.
C5_OthersStillReplaced ==
    pc = "done" =>
        /\ \A r \in RSRegions :
               Located(original_content, r) =>
                   /\ phase[r] = "Done"
                   /\ Count(content, new_content(r, data)) >= 1
        /\ content # original_content => opened

\* C6: the target file is opened for writing exactly when the text after all
\* regions differs from the text read; otherwise the file stays as it was.
C6_WriteBackRule ==
    /\ Running => (~opened /\ disk = original_content)
    /\ pc \in {"writing", "done", "failed"} =>
           (opened <=> content # original_content)
    /\ (pc = "done" /\ ~opened) => disk = original_content
    /\ (pc = "done" /\ opened) => disk = content

C6_Witness ==
    /\ pc = "done"
    /\ ~opened
    /\ last \in AllTypes
    /\ content = original_content

\* C9: the target file holds its complete original text or the complete
\* final text at every point of a run.
C9_NoPartialWrite ==
    pc \notin {"read", "idle"} => (disk = original_content \/ disk = content)

\* the least element of a non-empty set of numbers
Least(S) == CHOOSE i \in S : \A j \in S : i <= j

\* C7: replace_section replaces from the first occurrence of the start marker
\* to the first occurrence of the end marker that begins at or after the end
\* of that start marker, and returns the text as it is when either is missing.
C7_FirstStartFirstEndAfter ==
    rs_pc = "returned" =>
        LET c  == rs_args.content
            sm == rs_args.start_marker
            em == rs_args.end_marker
            S  == {i \in 0..Len(c) : Occurs(c, sm, i)}
        IN  IF S = {} THEN rs_ret = c
            ELSE LET E == {j \in 0..Len(c) :
                              Occurs(c, em, j) /\ j >= Least(S) + Len(sm)}
                 IN  IF E = {} THEN rs_ret = c
                     ELSE rs_ret = Slice(c, 0, Least(S)) \o rs_args.new_content
                                     \o Slice(c, Least(E), Len(c))

\* a replacement in a text with a second start marker and with an end marker
\* that begins before the end of the first start marker
C7_Witness ==
    /\ rs_pc = "returned"
    /\ rs_ret # rs_args.content
    /\ Count(rs_args.content, rs_args.start_marker) >= 2
    /\ \E j \in 0..Len(rs_args.content) :
           /\ Occurs(rs_args.content, rs_args.end_marker, j)
           /\ j < Find(rs_args.content, rs_args.start_marker, 0)
                    + Len(rs_args.start_marker)

\* the step a replace_section region may take, and what it carries
C8_Step ==
    \A r \in RSRegions :
        phase'[r] # phase[r] =>
            \/ pc = "read" /\ phase'[r] \in {"Pending", "SearchingStart"}
            \/ /\ phase[r] = "Pending" /\ phase'[r] = "SearchingStart"
               /\ content' = content
            \/ /\ phase[r] = "SearchingStart" /\ phase'[r] = "SearchingEnd"
               /\ content' = content /\ log' = log
            \/ /\ phase[r] = "SearchingStart" /\ phase'[r] = "Skipped"
               /\ Count(content, start_marker(r)) = 0
               /\ content' = content
               /\ end_idx' = end_idx
               /\ log' = Append(log, Diag("start", marker50(start_marker(r))))
               /\ pc' = AfterRegion(r)
            \/ /\ phase[r] = "SearchingEnd" /\ phase'[r] = "Replacing"
               /\ content' = content /\ log' = log
            \/ /\ phase[r] = "SearchingEnd" /\ phase'[r] = "Skipped"
               /\ ~Located(content, r)
               /\ content' = content
               /\ log' = Append(log, Diag("end", marker50(end_marker(r))))
               /\ pc' = AfterRegion(r)
            \/ /\ phase[r] = "Replacing" /\ phase'[r] = "Done"
               /\ log' = log
               /\ pc' = AfterRegion(r)

\* what holds of the regions in every state
C8_Inv ==
    /\ \A r \in RSRegions :
           /\ phase[r] = "SearchingEnd" =>
                  Occurs(content, start_marker(r), start_idx)
           /\ phase[r] = "Replacing" =>
                  /\ Occurs(content, start_marker(r), start_idx)
                  /\ Occurs(content, end_marker(r), end_idx)
                  /\ end_idx >= start_idx + Len(start_marker(r))
    /\ pc \in {"types", "math"} => phase["builtin"] \in {"Done", "Skipped"}
    /\ pc \in {"writeback", "writing", "done", "failed"} =>
           \A r \in RSRegions : phase[r] \in {"Done", "Skipped"}

\* C8: a region is replaced only after its start marker and then its end
\* marker were found; a failed start search ends the region without an end
\* search; a failed search leaves the text as it is and prints the missing
\* marker; every region ends Done or Skipped and main goes on to the next.
C8_StateMachine == [](C8_Inv) /\ [][C8_Step]_vars

\* the builtin region ends Skipped for its end marker, and the math region
\* is replaced after it
C8_Witness ==
    /\ pc = "done"
    /\ phase["builtin"] = "Skipped"
    /\ phase["math"] = "Done"
    /\ Len(log) >= 1
    /\ log[1] = Diag("end", marker50(end_marker("builtin")))

\* the "Generated on:" lines
GenOnLines == {"// Generated on: " \o isoformat(t) : t \in 0..MaxClock}

BackslashRun(s, i) ==
    LET stops == {k \in 1..(i - 1) : s[k] # "\\"} \cup {0}
    IN  (i - 1) - (CHOOSE m \in stops : \A k \in stops : k <= m)

\* every double quote of s follows an odd run of backslashes (the last one
\* escapes it), and every other run of backslashes is even (pairs)
WellEscaped(s) ==
    \A i \in 1..(Len(s) + 1) :
        (i = Len(s) + 1 \/ s[i] # "\\") =>
            IF i <= Len(s) /\ s[i] = "\""
            THEN BackslashRun(s, i) % 2 = 1
            ELSE BackslashRun(s, i) % 2 = 0

\* C15: for every doc text, what clean_docstring returns holds no raw line
\* feed and no raw carriage return, every double quote in it is preceded by
\* an escaping backslash, and every backslash in it belongs to an escape pair.
C15_DocEscaped ==
    cd_pc = "returned" =>
        /\ \A i \in 1..Len(cd_ret) : cd_ret[i] \notin {NL, "\r"}
        /\ WellEscaped(cd_ret)

\* a text with a quote, a backslash and a line feed has been cleaned
C15_Witness ==
    /\ cd_pc = "returned"
    /\ cd_doc = <<"\\", NL, "\"">>
    /\ cd_ret = <<"\\", "\\", " ", "\\", "\"">>

\* C16: for every doc text, what clean_docstring returns has at most 300
\* characters.
C16_AtMost300 == cd_pc = "returned" => Len(cd_ret) <= DocLimit

\* the text the rules of the spec give for parameter p
C19_Rule(p) ==
    CASE p.default.tag = "str" ->
             p.name \o <<"=">> \o <<"'">> \o p.default.str \o <<"'">>
      [] p.default.tag = "None" -> p.name \o <<"=", "N", "o", "n", "e">>
      [] p.default.tag \in {"int", "bool"} ->
             p.name \o <<"=">> \o py_str(p.default)
      [] p.default.tag = "empty" /\ p.kind = "VAR_POSITIONAL" ->
             <<"*">> \o p.name
      [] p.default.tag = "empty" /\ p.kind = "VAR_KEYWORD" ->
             <<"*", "*">> \o p.name
      [] OTHER -> p.name

\* C19: get_function_signature renders each parameter it keeps by the fixed
\* rules: a str default as name='value', a None default as name=None, any
\* other default as name=str(default); without a default *name for a
\* variadic positional, **name for a variadic keyword parameter, and the
\* bare name otherwise.
C19_RenderingRules ==
    (sg_pc = "returned" /\ ~sg_func.sigfail) =>
        LET kept == {i \in 1..Len(sg_func.parameters) :
                        sg_func.parameters[i].name # SELF}
        IN  \A i \in kept :
                \E k \in 1..Len(sg_ret[2]) :
                    /\ k = Cardinality({j \in kept : j <= i})
                    /\ sg_ret[2][k] = C19_Rule(sg_func.parameters[i])

\* a keyword-only parameter with a str default followed by **sep
C19_Witness ==
    /\ sg_pc = "returned"
    /\ sg_ret[2] = << <<"x", "=", "'", " ", "'">>, <<"*", "*", "s", "e", "p">> >>

\* C20: parameter extraction drops at most one parameter, and only a
\* receiver in leading position: every parameter that is not the first of
\* the signature is kept, whatever its name.
C20_OnlyLeadingReceiverDropped ==
    (sg_pc = "returned" /\ ~sg_func.sigfail) =>
        LET n == Len(sg_func.parameters)
            lead == IF n > 0 /\ sg_func.parameters[1].name = SELF THEN 1 ELSE 0
        IN  Len(sg_ret[2]) = n - lead

\* the allow-listed names builtins resolves, and those among them whose
\* signature extraction fails
Resolved == {i \in 1..Len(builtin_names) : hv_runtime[i].present}

Fallen == {i \in Resolved : hv_runtime[i].sigfail}

\* the place in the harvested list of the resolved name of index i
Place(i) == Cardinality({j \in Resolved : j <= i})

\* C17: when signature extraction fails for some items, the harvest still
\* completes and the record and the emitted block hold one entry for every
\* resolved item: a failed item is there with its name, its documentation
\* and an empty parameter list, the other items with their parameters.
C17_PartialTolerance ==
    hv_pc = "found" =>
        /\ Len(hv_functions) = Cardinality(Resolved)
        /\ Len(gen_generate_builtin_functions(hv_functions))
               = 2 * (Cardinality(Resolved) + 2) - 1
        /\ \A i \in Resolved :
               /\ hv_functions[Place(i)].name = builtin_names[i]
               /\ hv_functions[Place(i)].doc
                      = Str(clean_docstring(hv_runtime[i].doc))
               /\ hv_functions[Place(i)].params
                      = IF i \in Fallen THEN <<>>
                        ELSE [k \in 1..Len(hv_runtime[i].parameters) |->
                                 C19_Rule(hv_runtime[i].parameters[k])]

\* one failed extraction among the other, well-formed items
C17_Witness ==
    /\ hv_pc = "found"
    /\ Cardinality(Fallen) = 1
    /\ Cardinality(Resolved) = Len(builtin_names)
    /\ \E i \in Fallen : hv_functions[i].params = <<>>
                             /\ hv_functions[i].doc = "a \\\"b\\\""

\* C18: every recovered failure of the harvester is reported: the run prints
\* a warning about each allow-listed name that cannot be resolved, and a
\* report about each item whose parameter list fell back to the empty list.
C18_FailuresReported ==
    hv_pc = "found" =>
        \A i \in 1..Len(builtin_names) :
            (i \notin Resolved \/ i \in Fallen) =>
                \E k \in 1..Len(hv_log) : hv_log[k].about = builtin_names[i]

\* Reading an entry back as a literal. The index of the double quote that
\* closes a string literal whose text starts at index j of s, or 0: a
\* backslash takes the next character with it, a raw line feed ends nothing
RECURSIVE LiteralEnd(_, _)
LiteralEnd(s, j) ==
    IF j > Len(s) THEN 0
    ELSE IF s[j] = "\\" THEN LiteralEnd(s, j + 2)
    ELSE IF s[j] = NL THEN 0
    ELSE IF s[j] = "\"" THEN j
    ELSE LiteralEnd(s, j + 1)

NoParse == [ok |-> FALSE, text |-> <<>>, next |-> 0]

\* the string literal at index i of s: its text as written, and the index
\* after its closing quote
ParseString(s, i) ==
    IF i >= 1 /\ i <= Len(s) /\ s[i] = "\"" /\ LiteralEnd(s, i + 1) # 0
    THEN [ok |-> TRUE, text |-> SubSeq(s, i + 1, LiteralEnd(s, i + 1) - 1),
          next |-> LiteralEnd(s, i + 1) + 1]
    ELSE NoParse

\* lit stands at index i of s
Expect(s, i, lit) == i >= 1 /\ Occurs(s, lit, i - 1)

\* the list of string literals whose next element is expected at index i of
\* s, n elements read so far: the number of elements and the index after "]"
RECURSIVE ParseList(_, _, _)
ParseList(s, i, n) ==
    IF n = 0 /\ Expect(s, i, <<"]">>)
    THEN [ok |-> TRUE, count |-> 0, next |-> i + 1]
    ELSE LET e == ParseString(s, i)
         IN  IF ~e.ok THEN [ok |-> FALSE, count |-> 0, next |-> 0]
             ELSE IF Expect(s, e.next, <<"]">>)
             THEN [ok |-> TRUE, count |-> n + 1, next |-> e.next + 1]
             ELSE IF Expect(s, e.next, <<",", " ">>)
             THEN ParseList(s, e.next + 2, n + 1)
             ELSE [ok |-> FALSE, count |-> 0, next |-> 0]

Unparsed == [ok |-> FALSE, kind |-> "", name |-> <<>>, count |-> 0,
             doc |-> <<>>]

\* .function(name: "...", parameters: [...], documentation: "...")
ParseFunction(s) ==
    LET name == ParseString(s, Len(P_FUNCTION) + 1)
        list == ParseList(s, name.next + Len(P_PARAMS), 0)
        doc  == ParseString(s, list.next + Len(P_DOC))
    IN  IF /\ Expect(s, 1, P_FUNCTION)
           /\ name.ok
           /\ Expect(s, name.next, P_PARAMS)
           /\ list.ok
           /\ Expect(s, list.next, P_DOC)
           /\ doc.ok
           /\ Expect(s, doc.next, <<")">>)
           /\ doc.next = Len(s)
        THEN [ok |-> TRUE, kind |-> "function", name |-> name.text,
              count |-> list.count, doc |-> doc.text]
        ELSE Unparsed

\* .constant(name: "...", value: "...", documentation: "...")
ParseConstant(s) ==
    LET name  == ParseString(s, Len(P_CONSTANT) + 1)
        value == ParseString(s, name.next + Len(P_VALUE))
        doc   == ParseString(s, value.next + Len(P_DOC))
    IN  IF /\ Expect(s, 1, P_CONSTANT)
           /\ name.ok
           /\ Expect(s, name.next, P_VALUE)
           /\ value.ok
           /\ Expect(s, value.next, P_DOC)
           /\ doc.ok
           /\ Expect(s, doc.next, <<")">>)
           /\ doc.next = Len(s)
        THEN [ok |-> TRUE, kind |-> "constant", name |-> name.text,
              count |-> 0, doc |-> doc.text]
        ELSE Unparsed

ParseEntry(s) ==
    IF Expect(s, 1, P_CONSTANT) THEN ParseConstant(s) ELSE ParseFunction(s)

\* C11: round trip: reading the emitted entry back as a literal gives the
\* item's kind, name, number of parameters and documentation, for every
\* item the model may contain (none of these items is the overridden one).
C11_RoundTrip ==
    em_pc = "returned" =>
        ParseEntry(em_out)
            = [ok |-> TRUE,
               kind |-> IF IsConstant(em_item) THEN "constant" ELSE "function",
               name |-> em_item.name,
               count |-> Len(Get(em_item, "params", <<>>)),
               doc |-> em_item.doc]

\* the length of the first n parameters as the list writes them
RECURSIVE ListLen(_, _)
ListLen(params, n) ==
    IF n = 0 THEN 0
    ELSE ListLen(params, n - 1) + Len(params[n]) + 2
             + (IF n < Len(params) THEN 2 ELSE 0)

\* C12: a function-form item is rendered as one entry holding its name, its
\* parameters as double-quoted strings in the order of the item's parameter
\* sequence, none added, dropped or reordered, and its documentation; a
\* constant-form item as one entry holding its name, value and documentation.
C12_EntryLayout ==
    em_pc = "returned" =>
        IF IsConstant(em_item)
        THEN em_out = P_CONSTANT \o QUOTE \o em_item.name \o QUOTE
                          \o P_VALUE \o QUOTE \o em_item.value \o QUOTE
                          \o P_DOC \o QUOTE \o em_item.doc \o QUOTE \o <<")">>
        ELSE LET params == Get(em_item, "params", <<>>)
                 head == P_FUNCTION \o QUOTE \o em_item.name \o QUOTE
                             \o P_PARAMS
                 tail == <<"]">> \o P_DOC \o QUOTE \o em_item.doc \o QUOTE
                             \o <<")">>
             IN  /\ Occurs(em_out, head, 0)
                 /\ \A k \in 1..Len(params) :
                        Occurs(em_out, QUOTE \o params[k] \o QUOTE,
                               Len(head) + ListLen(params, k - 1))
                 /\ \A k \in 1..(Len(params) - 1) :
                        Occurs(em_out, <<",", " ">>,
                               Len(head) + ListLen(params, k) - 2)
                 /\ Occurs(em_out, tail,
                           Len(head) + ListLen(params, Len(params)))
                 /\ Len(em_out) = Len(head) + ListLen(params, Len(params))
                                      + Len(tail)

\* an entry with two different parameters has been emitted
C12_Witness ==
    /\ em_pc = "returned"
    /\ ~IsConstant(em_item)
    /\ em_item.params = << <<"*", "x">>, <<"x", "=", "N", "o", "n", "e">> >>
    /\ Occurs(em_out, <<"\"", "*", "x", "\"", ",", " ", "\"", "x", "=">>,
              Len(P_FUNCTION) + Len(em_item.name) + 2 + Len(P_PARAMS))

\* the places of line in the token sequence F
Places(F, line) == {i \in 1..Len(F) : F[i] = line}

\* the one place of a line that occurs once
Place1(F, line) == CHOOSE i \in Places(F, line) : TRUE

C13_Order ==
    <<"str", "list", "dict", "set", "frozenset", "bytes", "bytearray", "tuple">>

C13_Mark(t) == "    // MARK: - " \o capitalize(t) \o " Methods"

\* the entry lines of the module block for the constants and the functions of
\* the list d
ConstLines(d) ==
    {constant_line("        ", d[i].name, d[i].value, d[i].doc) :
         i \in {i \in 1..Len(d) : d[i].type = "constant"}}

FuncLines(d) ==
    {function_line("        ", d[i].name, params_str(d[i].params), d[i].doc) :
         i \in {i \in 1..Len(d) : d[i].type = "function"}}

\* C13: the standalone output holds its groups in the fixed order: the
\* built-in functions, then one block per container type of the record in the
\* order str, list, dict, set, frozenset, bytes, bytearray, tuple, then the
\* module constants, then the module functions.
C13_GroupOrder ==
    gen_pc = "generated" =>
        LET F == gen_file
            present == {k \in 1..Len(C13_Order) :
                            C13_Order[k] \in DOMAIN gen_data.type_methods}
            mark(k) == C13_Mark(C13_Order[k])
            head(k) == struct_head(type_map(C13_Order[k])[1])
        IN  /\ Cardinality(Places(F, "    // MARK: - Built-in Functions")) = 1
            /\ Cardinality(Places(F, BSTART)) = 1
            /\ Cardinality(Places(F, "    // MARK: - Math Module")) = 1
            /\ Cardinality(Places(F, MSTART)) = 1
            /\ Place1(F, "    // MARK: - Built-in Functions")
                   < Place1(F, BSTART)
            /\ Place1(F, "    // MARK: - Math Module") < Place1(F, MSTART)
            /\ \A k \in 1..Len(C13_Order) :
                   /\ Cardinality(Places(F, mark(k)))
                          = (IF k \in present THEN 1 ELSE 0)
                   /\ Cardinality(Places(F, head(k)))
                          = (IF k \in present THEN 1 ELSE 0)
            /\ \A k \in present :
                   /\ Place1(F, BSTART) < Place1(F, mark(k))
                   /\ Place1(F, mark(k)) < Place1(F, head(k))
                   /\ Place1(F, head(k)) < Place1(F, "    // MARK: - Math Module")
                   /\ \A j \in present :
                          j < k => Place1(F, head(j)) < Place1(F, mark(k))
            /\ \A i \in 1..Len(F) :
                   F[i] \in ConstLines(gen_data.math_module)
                       => /\ i > Place1(F, MSTART)
                          /\ \A j \in 1..Len(F) :
                                 F[j] \in FuncLines(gen_data.math_module)
                                     => i < j

\* the output for a record with all eight types and a module list that has a
\* function between two constants
C13_Witness ==
    /\ gen_pc = "generated"
    /\ DOMAIN gen_data.type_methods = AllTypes
    /\ gen_data.math_module = <<PI, SQRT, PI>>
    /\ Place1(gen_file, C13_Mark("bytearray")) < Place1(gen_file, C13_Mark("tuple"))

\* C14: in the emitted module block every constant entry precedes every
\* function entry, whatever the order of constants and functions in the
\* record's module list, in the generator's block and in apply's block; no
\* entry is lost.
C14_ConstantsFirst ==
    mm_pc = "returned" =>
        \A B \in {mm_gen, mm_apply} :
            /\ \A i, j \in 1..Len(B) :
                   (B[i] \in ConstLines(mm_data) /\ B[j] \in FuncLines(mm_data))
                       => i < j
            /\ Cardinality({i \in 1..Len(B) :
                                B[i] \in ConstLines(mm_data)
                                             \cup FuncLines(mm_data)})
                   = Len(mm_data)

\* a list with a function before a constant has been emitted
C14_Witness ==
    /\ mm_pc = "returned"
    /\ mm_data = <<SQRT, PI, FLOOR>>
    /\ \A B \in {mm_gen, mm_apply} :
           Place1(B, constant_line("        ", PI.name, PI.value, PI.doc))
               < Place1(B, function_line("        ", SQRT.name,
                                         params_str(SQRT.params), SQRT.doc))

\* the elements of the sequence s
Range(s) == {s[i] : i \in 1..Len(s)}

\* C26: apply refreshes every container type the harvester records: for each
\* type of the record whose methods struct is in the target file, apply
\* attempts the replacement of that struct, and the types apply processes are
\* the types the standalone generator emits.
C26_EveryRecordedType ==
    pc = "done" =>
        /\ \A t \in DOMAIN data.type_methods \cap AllTypes :
               (\E k \in 1..Len(original_content) :
                    original_content[k] = struct_head(type_map(t)[1]))
                   => \E i \in 1..Len(type_order) :
                          type_order[i] = t /\ tphase[i] \in {"Done", "Skipped"}
        /\ Range(type_order) \cap DOMAIN data.type_methods
               = Range(gen_type_order) \cap DOMAIN data.type_methods

\* C28: regions survive repeated runs: every region (builtin block, type
\* struct, module block) that a run located and replaced is located and
\* replaced again by the next run on the same record.
C28_RegionsSurvive ==
    (run >= 2 /\ pc = "done") =>
        /\ \A r \in RSRegions :
               earlier.phase[r] = "Done" => phase[r] = "Done"
        /\ \A i \in 1..Len(type_order) :
               earlier.tphase[i] = "Done" => tphase[i] = "Done"

\* line k of a block: the token sequence holds a line feed after every line
LineOf(B, k) == B[2 * k - 1]

\* method line i of a struct block, whose first line is four tokens
MethodLineOf(B, i) == B[8 + 2 * i]

\* C22: the rendering override applies to exactly one item: in apply's
\* builtin block every item whose name is not 'print' is rendered as the
\* automatic rendering, its parameter strings joined unchanged, also when its
\* parameters hold the texts the override looks for; and the override is
\* never applied to type-method or module entries.
C22_OverrideOnlyPrint ==
    bk_pc = "emitted" =>
        /\ \A i \in 1..Len(bk_data.builtin_functions) :
               LET item == bk_data.builtin_functions[i]
               IN  item.name # "print" =>
                       /\ bk_apply.params[i] = params_str(item.params)
                       /\ LineOf(bk_apply.builtin, i + 1)
                              = function_line("        ", item.name,
                                              params_str(item.params), item.doc)
        /\ \A t \in DOMAIN bk_data.type_methods :
               \A i \in 1..Len(bk_data.type_methods[t]) :
                   LET item == bk_data.type_methods[t][i]
                   IN  MethodLineOf(bk_apply.types[t], i)
                           = function_line("            ", item.name,
                                           params_str(item.params), item.doc)
        /\ \A i \in 1..Len(bk_data.math_module) :
               LET item == bk_data.math_module[i]
               IN  item.type = "function" =>
                       \E k \in 1..Len(bk_apply.math) :
                           bk_apply.math[k]
                               = function_line("        ", item.name,
                                               params_str(item.params), item.doc)

\* a built-in item, a method and a module function whose parameters hold the
\* texts of the override have been rendered
C22_Witness ==
    /\ bk_pc = "emitted"
    /\ bk_data.builtin_functions = <<PRINT, INPUT>>
    /\ \E t \in DOMAIN bk_data.type_methods : bk_data.type_methods[t] = <<PRINT>>
    /\ bk_data.math_module = <<DIST>>
    /\ bk_apply.params[1] # params_str(PRINT.params)
    /\ bk_apply.params[2] = params_str(INPUT.params)

\* the index of the parameter of item whose default holds the line feed
EndParams(item) ==
    {k \in 1..Len(item.params) :
         \E c \in 1..Len(item.params[k]) : item.params[k][c] = NL}

\* C23: the override is not a blind substring replace: for the overridden
\* item it alters only the parameter whose default holds the line ending;
\* every other parameter of that item is still rendered as the automatic
\* rendering renders it, the parameter string between two quotes.
C23_OnlyEndParameter ==
    bk_pc = "emitted" =>
        \A i \in 1..Len(bk_data.builtin_functions) :
            LET item == bk_data.builtin_functions[i]
            IN  item.name = "print" =>
                    \A k \in (1..Len(item.params)) \ EndParams(item) :
                        \E c \in 0..Len(bk_apply.params[i]) :
                            Occurs(bk_apply.params[i],
                                   <<"\"">> \o item.params[k] \o <<"\"">>, c)

\* C24: for the overridden item as harvested, with a parameter end='<LF>',
\* the emitted entry holds the line ending as the escaped token \n and no
\* raw line feed, so it stays a literal on one line.
C24_NoRawLineFeed ==
    bk_pc = "emitted" =>
        \A i \in 1..Len(bk_data.builtin_functions) :
            bk_data.builtin_functions[i].name = "print" =>
                /\ \A c \in 1..Len(bk_apply.params[i]) :
                       bk_apply.params[i][c] # NL
                /\ \E c \in 0..Len(bk_apply.params[i]) :
                       Occurs(bk_apply.params[i],
                              <<"e", "n", "d", "=", "'", "\\", "n", "'">>, c)

\* C25: the replacement text apply inserts for a group is the text the
\* standalone generator emits for the same record: the builtin block, each
\* type block and the module block of the two scripts are the same text.
C25_SameBlocks ==
    bk_pc = "emitted" =>
        /\ bk_apply.builtin = bk_gen.builtin
        /\ \A t \in DOMAIN bk_data.type_methods :
               bk_apply.types[t] = bk_gen.types[t]
        /\ bk_apply.math = bk_gen.math

\* C27: apply finds what it writes: for every type of apply's own order, the
\* struct search pattern built for the type matches the struct block
\* generate_type_methods_struct emits for it, from its first to its last
\* character.
C27_FindsOwnStruct ==
    bk_pc = "emitted" =>
        \A t \in DOMAIN bk_found :
            bk_found[t] = <<0, Len(bk_apply.types[t])>>

\* the attributes of the namespace that are public, and those of them that
\* getattr returns and that are callable
Public == {i \in 1..Len(ns_dir) : ns_dir[i].name[1] # "_"}
PublicCallable == {i \in Public : ns_dir[i].attr.kind = "callable"}

\* C21: for a container type the harvested list holds exactly the attributes
\* whose name does not begin with an underscore and that are callable, each
\* once; for the module it holds every public attribute exactly once, as a
\* constant with its stringified value if it is not callable and as a
\* function otherwise.
C21_PublicCallables ==
    /\ ns_pc = "type_done" =>
           /\ Len(ns_methods) = Cardinality(PublicCallable)
           /\ \A i \in PublicCallable :
                  \E j \in 1..Len(ns_methods) :
                      ns_methods[j].name = Str(ns_dir[i].name)
           /\ \A j \in 1..Len(ns_methods) :
                  \E i \in PublicCallable :
                      ns_methods[j].name = Str(ns_dir[i].name)
    /\ ns_pc = "module_done" =>
           /\ Len(ns_items) = Cardinality(Public)
           /\ \A i \in Public :
                  \E j \in 1..Len(ns_items) :
                      /\ ns_items[j].name = "math." \o Str(ns_dir[i].name)
                      /\ IF ns_dir[i].attr.kind = "callable"
                         THEN /\ ns_items[j].type = "function"
                              /\ "value" \notin DOMAIN ns_items[j]
                         ELSE /\ ns_items[j].type = "constant"
                              /\ ns_items[j].value
                                     \in {"3", "inf", "2.0", "nan"}
                              /\ ns_items[j].value
                                     = Str(str_of(ns_dir[i].attr.value))

\* a type with a private callable, a public value and a public callable has
\* been harvested, and only the last is in the list
C21_Witness ==
    /\ ns_pc = "type_done"
    /\ \E i \in 1..Len(ns_dir) :
           ns_dir[i].name[1] = "_" /\ ns_dir[i].attr.kind = "callable"
    /\ \E i \in Public : ns_dir[i].attr.kind = "value"
    /\ Len(ns_methods) = 1
    /\ ns_methods[1].name = "t"
    /\ ns_methods[1].params = << <<"x", "=", "N", "o", "n", "e">> >>
    /\ ns_methods[1].doc = "Ret."

\* the entry line of a module item, by its form
FormLine(item) ==
    IF "value" \in DOMAIN item
    THEN constant_line("        ", item.name, item.value, item.doc)
    ELSE function_line("        ", item.name, params_str(item.params), item.doc)

HasValue(item) == "value" \in DOMAIN item
HasNoValue(item) == "value" \notin DOMAIN item

Blank(l) == \A k \in 1..Len(l) : IsSpace(l[k])

\* the lines of the first paragraph of doc, stripped: from the first line
\* that is not blank up to the next blank line
Paragraph(doc) ==
    LET L == split_lines(doc)
    IN  IF \A i \in 1..Len(L) : Blank(L[i]) THEN <<>>
        ELSE LET f == CHOOSE i \in 1..Len(L) :
                          ~Blank(L[i]) /\ \A k \in 1..(i - 1) : Blank(L[k])
                 e == IF \E i \in (f + 1)..Len(L) : Blank(L[i])
                      THEN CHOOSE i \in (f + 1)..Len(L) :
                               Blank(L[i])
                                   /\ \A k \in (f + 1)..(i - 1) : ~Blank(L[k])
                      ELSE Len(L) + 1
             IN  [k \in 1..(e - f) |-> strip(L[f + k - 1])]

\* the lines taken: no further line once the joined text exceeds the limit
Taken(para) ==
    IF \E k \in 1..Len(para) :
           Len(Join(SubSeq(para, 1, k), <<" ">>)) > DocLimit
    THEN SubSeq(para, 1,
                CHOOSE k \in 1..Len(para) :
                    /\ Len(Join(SubSeq(para, 1, k), <<" ">>)) > DocLimit
                    /\ \A j \in 1..(k - 1) :
                           Len(Join(SubSeq(para, 1, j), <<" ">>)) <= DocLimit)
    ELSE para

\* C30: clean_docstring returns only the first paragraph: it skips the
\* leading blank lines, takes the stripped lines that are not blank in order,
\* stops at the first blank line after the first line that is not blank, and
\* takes no further line once the text joined by spaces exceeds 300
\* characters; the result has no leading or trailing white space and no run
\* of two or more white space characters, and an empty doc gives the empty
\* string.
C30_FirstParagraph ==
    cd_pc = "returned" =>
        /\ cd_ret = Join(split_ws(escape_swift(
                        Join(Taken(Paragraph(cd_doc)), <<" ">>))), <<" ">>)
        /\ cd_ret # <<>> => ~IsSpace(cd_ret[1]) /\ ~IsSpace(cd_ret[Len(cd_ret)])
        /\ \A i \in 1..(Len(cd_ret) - 1) :
               ~(IsSpace(cd_ret[i]) /\ IsSpace(cd_ret[i + 1]))
        /\ cd_doc = <<>> => cd_ret = <<>>

\* a text with leading blank lines, a first paragraph of two lines and two
\* more paragraphs has been cleaned
C30_Witness ==
    /\ cd_pc = "returned"
    /\ cd_doc = <<NL, " ", NL, "a", " ", NL, " ", " ", "b", NL, "\r", NL, "c">>
    /\ cd_ret = <<"a", " ", "b">>

====
